---- MODULE Spec2Model ----
(***************************************************************************)
(* A model of the LawStreet legal assistant (src/llm/app): the hybrid      *)
(* retrieval of rag.py, its relevance gate, the context assembler, the     *)
(* ask orchestration, the /ask endpoint of main.py and the response        *)
(* post-processor of response_processor.py.                                *)
(*                                                                         *)
(* Texts that the code only searches with regular expressions (queries,    *)
(* LLM answers) are sequences of tokens: a token is a word or a marker.    *)
(* Texts whose length the code measures (the context) are real strings.    *)
(* Distances are kept in tenths: 5 is the cosine distance 0.5.             *)
(***************************************************************************)
EXTENDS Integers, Sequences, FiniteSets, TLC

(***************************************************************************)
(* Bounds of the model.                                                    *)
(***************************************************************************)
\* longest query, in tokens, that a request carries
MaxQueryLen == 2
\* most chunks chunk_text is followed for
MaxChunks == 6
\* longest body, in words, of a text handed to enforce_word_limit directly
MaxBodyWords == 300
\* longest query, in tokens, handed to extract_section_info directly
MaxRefLen == 4
\* the threads that share the LLM client
MaxCallers == 2
\* largest top_k a caller of retrieve_documents passes
MaxTopK == 2
\* longest candidate list handed to build_context directly
MaxDocs == 2

(***************************************************************************)
(* Program constants (src/llm/app/config.py).                              *)
(***************************************************************************)
TOP_K_RESULTS == 2
MAX_CONTEXT_LENGTH == 2500
\* 0.8, in tenths
RELEVANCE_THRESHOLD == 8

None == "None"

(***************************************************************************)
(* QueryAnalyzer: extract_section_info (rag.py 230-271).                   *)
(***************************************************************************)
ACTS == {"ipc", "crpc", "cpc", "evidence"}

\* the words a query of the model is made of
QueryTokens == {"IPC", "420", "41", "law"}

\* str.lower() on one token of the model's vocabulary
Lower(t) ==
    CASE t = "IPC" -> "ipc"
      [] t = "Section" -> "section"
      [] t = "FIR" -> "fir"
      [] t = "Cheating" -> "cheating"
      [] t = "You" -> "you"
      [] t = "No" -> "no"
      [] t = "Ollama" -> "ollama"
      [] t = "Gemini" -> "gemini"
      [] t = "File" -> "file"
      [] t = "Police" -> "police"
      [] t = "The" -> "the"
      [] t = "Error" -> "error"
      [] t = "State" -> "state"
      [] t = "Kumar" -> "kumar"
      [] OTHER -> t

query_lower(query) == [i \in 1..Len(query) |-> Lower(query[i])]

\* \d+ : the token is a run of digits
IsNumber(t) == t \in {"420", "41"}

\* re.search: the leftmost position at which the pattern matches, 0 if none
FirstMatch(q, P(_, _)) ==
    IF \E i \in 1..Len(q) : P(q, i)
    THEN CHOOSE i \in 1..Len(q) : P(q, i) /\ \A j \in 1..(i - 1) : ~P(q, j)
    ELSE 0

\* patterns[0]: (ipc|crpc|cpc|evidence) (section)? (\d+)
Pattern0(q, i) ==
    /\ q[i] \in ACTS
    /\ \/ i + 2 <= Len(q) /\ q[i + 1] = "section" /\ IsNumber(q[i + 2])
       \/ i + 1 <= Len(q) /\ IsNumber(q[i + 1])

\* patterns[1]: section (\d+) (of)? (ipc|crpc|cpc|evidence)?
Pattern1(q, i) ==
    q[i] = "section" /\ i + 1 <= Len(q) /\ IsNumber(q[i + 1])

\* patterns[2]: sec.? (\d+)
Pattern2(q, i) ==
    q[i] = "sec" /\ i + 1 <= Len(q) /\ IsNumber(q[i + 1])

\* patterns[3]: what is (\d+)
Pattern3(q, i) ==
    q[i] = "what" /\ i + 2 <= Len(q) /\ q[i + 1] = "is" /\ IsNumber(q[i + 2])

\* extract_section_info with the bare rules tried before the act-aware ones
extract_section_info_bare_first(query) ==
    LET q == query_lower(query)
        m0 == FirstMatch(q, Pattern0)
        m1 == FirstMatch(q, Pattern1)
        m2 == FirstMatch(q, Pattern2)
        m3 == FirstMatch(q, Pattern3)
    IN  IF m3 # 0
        THEN [section_num |-> q[m3 + 2], act_type |-> "ipc"]
        ELSE IF m2 # 0
        THEN [section_num |-> q[m2 + 1], act_type |-> "ipc"]
        ELSE IF m1 # 0
        THEN [section_num |-> q[m1 + 1],
              act_type |->
                IF m1 + 3 <= Len(q) /\ q[m1 + 2] = "of" /\ q[m1 + 3] \in ACTS
                THEN q[m1 + 3]
                ELSE IF m1 + 2 <= Len(q) /\ q[m1 + 2] \in ACTS
                THEN q[m1 + 2]
                ELSE "ipc"]
        ELSE IF m0 # 0
        THEN [section_num |-> IF q[m0 + 1] = "section" /\ m0 + 2 <= Len(q)
                                 /\ IsNumber(q[m0 + 2])
                              THEN q[m0 + 2] ELSE q[m0 + 1],
              act_type |-> q[m0]]
        ELSE [section_num |-> None, act_type |-> None]

extract_section_info(query) ==
    LET q == query_lower(query)
        m0 == FirstMatch(q, Pattern0)
        m1 == FirstMatch(q, Pattern1)
        m2 == FirstMatch(q, Pattern2)
        m3 == FirstMatch(q, Pattern3)
    IN  IF m0 # 0
        THEN [section_num |-> IF q[m0 + 1] = "section" /\ m0 + 2 <= Len(q)
                                 /\ IsNumber(q[m0 + 2])
                              THEN q[m0 + 2] ELSE q[m0 + 1],
              act_type |-> q[m0]]
        ELSE IF m1 # 0
        THEN [section_num |-> q[m1 + 1],
              act_type |->
                IF m1 + 3 <= Len(q) /\ q[m1 + 2] = "of" /\ q[m1 + 3] \in ACTS
                THEN q[m1 + 3]
                ELSE IF m1 + 2 <= Len(q) /\ q[m1 + 2] \in ACTS
                THEN q[m1 + 2]
                ELSE "ipc"]
        ELSE IF m2 # 0
        THEN [section_num |-> q[m2 + 1], act_type |-> "ipc"]
        ELSE IF m3 # 0
        THEN [section_num |-> q[m3 + 2], act_type |-> "ipc"]
        ELSE [section_num |-> None, act_type |-> None]

\* "if section_num and act_type"
SectionDetected(query) ==
    LET ref == extract_section_info(query)
    IN  ref.section_num # None /\ ref.act_type # None

(***************************************************************************)
(* The vector collection.  Corpus lists the chunks that the indexer can    *)
(* have stored, in storage order; a chunk carries the metadata written by  *)
(* scripts/index_data.py 434-451.  A metadata key the indexer drops        *)
(* (an empty value) reads as "", the default of every metadata.get here.   *)
(***************************************************************************)
RECURSIVE Filler(_)
Filler(n) ==
    IF n = 0 THEN ""
    ELSE IF n % 2 = 0 THEN LET h == Filler(n \div 2) IN h \o h
    ELSE "x" \o Filler(n - 1)

Corpus ==
    << [content |-> Filler(40),
        metadata |-> [type |-> "ipc", section_number |-> "420",
                     section_title |-> "Cheating in The Indian Penal Code",
                     source |-> "IndianKanoon.org", chunk_index |-> 0]],
       [content |-> Filler(30),
        metadata |-> [type |-> "ipc", section_number |-> "420",
                     section_title |-> "Cheating in The Indian Penal Code",
                     source |-> "IndianKanoon.org", chunk_index |-> 1]],
       [content |-> Filler(50),
        metadata |-> [type |-> "crpc", section_number |-> "41",
                     section_title |-> "",
                     source |-> "IndianKanoon.org", chunk_index |-> 0]] >>

ChunkIds == 1..Len(Corpus)

\* cosine distances the index can report, in tenths
Distances == {0, 5, 9}

Min(a, b) == IF a < b THEN a ELSE b

\* The nearest-neighbour order of the collection for one embedded query:
\* the first n chunks, no chunk twice, distances ascending.
Rankings(coll, n) ==
    LET len == Min(n, Cardinality(coll))
    IN  { r \in [1..len -> [id : coll, distance : Distances]] :
            /\ \A i, j \in 1..len : i # j => r[i].id # r[j].id
            /\ \A i \in 1..(len - 1) : r[i].distance <= r[i + 1].distance }

\* collection.get(where = {section_number, type}): every stored chunk of the
\* section, in storage order (rag.py 391-399)
RECURSIVE MatchingIds(_, _, _, _)
MatchingIds(coll, section_num, act_type, from) ==
    IF from > Len(Corpus) THEN <<>>
    ELSE LET rest == MatchingIds(coll, section_num, act_type, from + 1)
         IN  IF /\ from \in coll
                /\ Corpus[from].metadata.section_number = section_num
                /\ Corpus[from].metadata.type = act_type
             THEN <<from>> \o rest
             ELSE rest

collection_get(coll, section_num, act_type) ==
    MatchingIds(coll, section_num, act_type, 1)

\* collection.query(n_results): the n nearest chunks (rag.py 420-424)
collection_query(ranking, n_results) ==
    SubSeq(ranking, 1, Min(n_results, Len(ranking)))

(***************************************************************************)
(* HybridRetriever: RAGPipeline.retrieve_documents (rag.py 371-449).       *)
(***************************************************************************)
\* f"{meta.get('type', '')}_{meta.get('section_number', '')}"
doc_id(meta) == meta.type \o "_" \o meta.section_number

\* lines 402-407: every exact hit is appended with distance 0.0
ExactDocs(ids) ==
    [i \in 1..Len(ids) |->
        [content |-> Corpus[ids[i]].content,
         metadata |-> Corpus[ids[i]].metadata,
         distance |-> 0]]

\* the merge loop of lines 432-447 with the new candidate put in front of
\* the list instead of appended
RECURSIVE MergeSemantic_prepending(_, _, _, _, _)
MergeSemantic_prepending(results, idx, retrieved_docs, existing_ids, top_k) ==
    IF idx > Len(results) \/ Len(retrieved_docs) >= top_k
    THEN retrieved_docs
    ELSE LET meta == Corpus[results[idx].id].metadata
         IN  IF doc_id(meta) \in existing_ids
             THEN MergeSemantic_prepending(results, idx + 1, retrieved_docs,
                                           existing_ids, top_k)
             ELSE MergeSemantic_prepending(results, idx + 1,
                    <<[content |-> Corpus[results[idx].id].content,
                       metadata |-> meta,
                       distance |-> results[idx].distance]>> \o retrieved_docs,
                    existing_ids \cup {doc_id(meta)}, top_k)

\* lines 432-447: the merge loop over the semantic results
RECURSIVE MergeSemantic(_, _, _, _, _)
MergeSemantic(results, idx, retrieved_docs, existing_ids, top_k) ==
    IF idx > Len(results) \/ Len(retrieved_docs) >= top_k
    THEN retrieved_docs
    ELSE LET meta == Corpus[results[idx].id].metadata
         IN  IF doc_id(meta) \in existing_ids
             THEN MergeSemantic(results, idx + 1, retrieved_docs, existing_ids, top_k)
             ELSE MergeSemantic(results, idx + 1,
                    Append(retrieved_docs,
                           [content |-> Corpus[results[idx].id].content,
                            metadata |-> meta,
                            distance |-> results[idx].distance]),
                    existing_ids \cup {doc_id(meta)}, top_k)

\* io: what the collaborators do during this call
\*   exact_fails: collection.get raises (caught at 409)
\*   embed_fails: embed_query raises (416, not caught)
\*   query_fails: collection.query raises (420, not caught)
\*   ranking:     the nearest-neighbour order collection.query reports
\* The result is [raised, docs]: raised means the call ended in an exception.
retrieve_documents(coll, io, query, top_k) ==
    LET ref == extract_section_info(query)
        exact_ids == IF SectionDetected(query) /\ ~io.exact_fails
                     THEN collection_get(coll, ref.section_num, ref.act_type)
                     ELSE <<>>
        exact == ExactDocs(exact_ids)
        remaining_results == top_k - Len(exact)
        results == collection_query(io.ranking, remaining_results + Len(exact))
        existing_ids == { doc_id(exact[i].metadata) : i \in 1..Len(exact) }
    IN  IF io.embed_fails
        THEN [raised |-> TRUE, docs |-> <<>>]
        ELSE IF remaining_results > 0
        THEN IF io.query_fails
             THEN [raised |-> TRUE, docs |-> <<>>]
             ELSE [raised |-> FALSE,
                   docs |-> MergeSemantic(results, 1, exact, existing_ids, top_k)]
        ELSE [raised |-> FALSE, docs |-> exact]

(***************************************************************************)
(* RelevanceGate: RAGPipeline._check_relevance (rag.py 675-699).           *)
(***************************************************************************)
_check_relevance(retrieved_docs, query) ==
    IF retrieved_docs = <<>> THEN FALSE
    ELSE LET best_distance == retrieved_docs[1].distance
             ref == extract_section_info(query)
         IN  IF best_distance = 0 THEN TRUE
             ELSE IF SectionDetected(query)
             THEN \E i \in 1..Len(retrieved_docs) :
                    /\ retrieved_docs[i].metadata.section_number = ref.section_num
                    /\ retrieved_docs[i].metadata.type = ref.act_type
             ELSE best_distance < RELEVANCE_THRESHOLD

(***************************************************************************)
(* ContextAssembler: RAGPipeline.build_context (rag.py 451-504).           *)
(***************************************************************************)
NO_DOCUMENTS_CONTEXT == "No relevant legal documents were found for this query."

\* section_title.replace('in The', ' - ').replace('in TheIndian', ' - ')
\* on the titles of the model
clean_title(section_title) ==
    CASE section_title = "Cheating in The Indian Penal Code"
           -> "Cheating  -  Indian Penal Code"
      [] OTHER -> section_title

\* lines 471-496: the segment rendered for the idx-th document
doc_text(idx, doc) ==
    LET metadata == doc.metadata
        doc_type == metadata.type
        section_num == metadata.section_number
        header ==
            CASE doc_type = "ipc" ->
                   "Indian Penal Code (IPC) - Section " \o section_num \o "\n"
              [] doc_type = "crpc" ->
                   "Code of Criminal Procedure (CrPC) - Section " \o section_num \o "\n"
              [] doc_type = "cpc" ->
                   "Code of Civil Procedure (CPC) - Section " \o section_num \o "\n"
              [] doc_type = "evidence" ->
                   "Indian Evidence Act - Section " \o section_num \o "\n"
              [] OTHER ->
                   (IF metadata.source # ""
                    THEN "Source: " \o metadata.source \o "\n" ELSE "")
                   \o (IF section_num # ""
                       THEN "Section: " \o section_num \o "\n" ELSE "")
        title == IF metadata.section_title # ""
                 THEN "Title: " \o clean_title(metadata.section_title) \o "\n"
                 ELSE ""
    IN  "\n--- Document " \o ToString(idx) \o " ---\n"
        \o header \o title \o "\n" \o doc.content \o "\n" \o "---\n"

\* lines 467-502: segments are accepted while the running total fits
RECURSIVE ContextParts(_, _, _, _)
ContextParts(documents, idx, context_parts, current_length) ==
    IF idx > Len(documents) THEN context_parts
    ELSE LET text == doc_text(idx, documents[idx])
         IN  IF current_length + Len(text) > MAX_CONTEXT_LENGTH
             THEN context_parts
             ELSE ContextParts(documents, idx + 1, Append(context_parts, text),
                               current_length + Len(text))

\* sep.join(parts)
RECURSIVE Join(_, _)
Join(parts, sep) ==
    IF parts = <<>> THEN ""
    ELSE IF Len(parts) = 1 THEN parts[1]
    ELSE parts[1] \o sep \o Join(Tail(parts), sep)

build_context(documents) ==
    IF documents = <<>>
    THEN NO_DOCUMENTS_CONTEXT
    ELSE Join(ContextParts(documents, 1, <<>>, 0), "\n")

(***************************************************************************)
(* Texts of the response post-processor (response_processor.py).           *)
(* A text is a sequence of tokens: NL is a line break, every other token   *)
(* is one whitespace-delimited word of the string.  The bullet and the     *)
(* warning sign are written BULLET and WARN.  A regular expression is      *)
(* modelled on the tokens of the model's vocabulary: the rules of a table  *)
(* that no text of the model can trigger are left out of the table.        *)
(***************************************************************************)
NL == "\n"

\* str.split(): the words of a text
Words(text) == SelectSeq(text, LAMBDA t : t # NL)

RECURSIVE lstrip(_)
lstrip(text) ==
    IF text # <<>> /\ Head(text) = NL THEN lstrip(Tail(text)) ELSE text

RECURSIVE rstrip(_)
rstrip(text) ==
    IF text # <<>> /\ text[Len(text)] = NL
    THEN rstrip(SubSeq(text, 1, Len(text) - 1))
    ELSE text

strip(text) == lstrip(rstrip(text))

\* str.split('\n'): the lines of a text, each a sequence of words
RECURSIVE SplitLines(_)
SplitLines(text) ==
    IF \E i \in 1..Len(text) : text[i] = NL
    THEN LET i == CHOOSE k \in 1..Len(text) :
                    text[k] = NL /\ \A j \in 1..(k - 1) : text[j] # NL
         IN  <<SubSeq(text, 1, i - 1)>> \o SplitLines(SubSeq(text, i + 1, Len(text)))
    ELSE <<text>>

\* '\n'.join(lines)
RECURSIVE JoinLines(_)
JoinLines(lines) ==
    IF lines = <<>> THEN <<>>
    ELSE IF Len(lines) = 1 THEN lines[1]
    ELSE lines[1] \o <<NL>> \o JoinLines(Tail(lines))

\* the text holds one of the tokens of S
HasToken(text, S) == \E i \in 1..Len(text) : text[i] \in S

\* the words w1 w2 occur next to each other on one line, w1 in A, w2 in B
HasPair(text, A, B) ==
    \E i \in 1..(Len(text) - 1) : text[i] \in A /\ text[i + 1] \in B

\* the positions at which the phrase (a sequence of tokens) occurs
PhraseAt(text, i, phrase) ==
    /\ i + Len(phrase) - 1 <= Len(text)
    /\ \A k \in 1..Len(phrase) : text[i + k - 1] = phrase[k]

\* text.replace(marker, block + marker): the block goes in front of every
\* token that holds the marker
RECURSIVE InsertBefore(_, _, _)
InsertBefore(text, markers, block) ==
    LET at == { p \in 1..Len(text) : text[p] \in markers }
    IN  IF at = {} THEN text
        ELSE LET p == CHOOSE k \in at : \A q \in at : k <= q
             IN  SubSeq(text, 1, p - 1) \o block \o <<text[p]>>
                 \o InsertBefore(SubSeq(text, p + 1, Len(text)), markers, block)

(***************************************************************************)
(* The fixed blocks (response_processor.py 157-171, 216-232).              *)
(***************************************************************************)
DEFAULT_JURISDICTION ==
    << NL, "**Jurisdiction", "Note:**", NL, "This", "applies", "to",
       "Indian", "law,", "which", "can", "vary", "significantly", "by",
       "state.", "Your", "state", "may", "have", "specific", "provisions",
       "that", "differ", "from", "general", "principles.", NL >>

DEFAULT_DISCLAIMER ==
    << NL, "---", NL, "WARN", "**Disclaimer:**", "This", "is", "general",
       "legal", "information,", "not", "legal", "advice.", "Consult", "a",
       "qualified", "lawyer", "for", "advice", "specific", "to", "your",
       "situation.", NL >>

PRIVACY_WARNING_STRONG ==
    << NL, "WARN", "**Critical", "Privacy", "Warning:**", NL, "BULLET",
       "Accessing", "someone's", "phone,", "messages,", "or", "accounts",
       "WITHOUT", "their", "consent", "may", "be", "illegal", "(privacy",
       "violation,", "IT", "Act", "offenses,", "or", "theft)", NL,
       "BULLET", "Admissibility", "!=", "Permission", "--", "courts",
       "may", "accept", "evidence,", "but", "OBTAINING", "it", "illegally",
       "is", "a", "separate", "offense", NL, "BULLET", "Evidence", "!=",
       "Proof", "--", "screenshots", "or", "messages", "alone", "rarely",
       "prove", "anything", "conclusively", "in", "court", NL, "BULLET",
       "Obtaining", "evidence", "without", "consent", "carries", "its",
       "own", "legal", "risks", "and", "may", "harm", "your", "case",
       "ethically", NL >>

FAMILY_EVIDENCE_WARNING ==
    << NL, "WARN", "**Important", "for", "Family/Divorce", "Matters:**",
       NL, "BULLET", "Private", "messages", "showing", "infidelity", "are",
       "NOT", "automatic", "grounds", "for", "divorce", "in", "India", NL,
       "BULLET", "Family", "courts", "evaluate", "overall", "conduct",
       "and", "circumstances,", "not", "just", "digital", "evidence", NL,
       "BULLET", "Illegally", "obtained", "evidence", "may", "be",
       "admitted", "but", "could", "affect", "your", "credibility", NL,
       "BULLET", "The", "burden", "of", "proof", "in", "family", "matters",
       "differs", "from", "criminal", "cases", NL >>

\* CORRECT_ESCALATIONS (130-140)
CORRECT_ESCALATIONS(topic) ==
    CASE topic = "employment" ->
           <<"Labour", "Commissioner,", "Industrial", "Tribunal,", "or", "Labour", "Court">>
      [] topic = "tenancy" ->
           <<"Rent", "Controller,", "Rent", "Tribunal,", "or", "Civil", "Court">>
      [] topic = "consumer" ->
           <<"Consumer", "Forum", "or", "Consumer", "Disputes", "Redressal", "Commission">>
      [] topic = "family" ->
           <<"Family", "Court", "or", "Mediation", "Center">>
      [] topic = "criminal" ->
           <<"Police", "Station", "(FIR),", "Magistrate", "Court">>
      [] topic = "debt" ->
           <<"Civil", "Court", "(money", "suit),", "legal", "notice,", "or", "mediation">>
      [] topic = "property" ->
           <<"Civil", "Court,", "Revenue", "Court,", "or", "Tehsildar", "office">>
      [] topic = "privacy" ->
           <<"Cyber", "Cell", "(if", "criminal),", "or", "Civil", "Court", "for", "injunction">>
      [] OTHER ->
           <<"appropriate", "legal", "forum", "or", "Civil", "Court">>

\* DEFAULT_NEXT_STEPS_TEMPLATE.format(escalation_path = ...)
DEFAULT_NEXT_STEPS_TEMPLATE(escalation_path) ==
    << NL, "**Suggested", "Next", "Steps:**", NL,
       "BULLET", "Document", "all", "relevant", "details", "and", "preserve",
       "any", "evidence", NL,
       "BULLET", "Consider", "direct", "communication", "or", "mediation",
       "first", NL, "BULLET" >>
    \o escalation_path
    \o << NL, "BULLET", "Consulting", "a", "local", "lawyer", "can", "provide",
          "guidance", "tailored", "to", "your", "state", "and", "situation", NL >>

(***************************************************************************)
(* Topic detection (response_processor.py 92-127, 240-272).                *)
(***************************************************************************)
\* a token is a word with, possibly, trailing punctuation: Bare is the
\* word, Punct what follows it
DotTokens ==
    {"punishable.", "lawyer.", "debt.", "station.", "FIR.", "police.",
     "money.", "notice.", "offense.", "debts.", "state.", "principles.",
     "advice.", "situation.", "v.", "relationship.", "loan.",
     "cheating."}

Punct(t) ==
    CASE t \in DotTokens -> "."
      [] t \in {"Error:", "Error;"} -> ":"
      [] t \in {"Kumar,", "notice,", "Court,", "matter,", "law,"} -> ","
      [] OTHER -> ""

Bare(t) ==
    CASE t = "punishable." -> "punishable"
      [] t = "cheating." -> "cheating"
      [] t = "lawyer." -> "lawyer"
      [] t = "debt." -> "debt"
      [] t = "station." -> "station"
      [] t = "FIR." -> "FIR"
      [] t = "police." -> "police"
      [] t = "money." -> "money"
      [] t = "notice." -> "notice"
      [] t = "offense." -> "offense"
      [] t = "debts." -> "debts"
      [] t = "state." -> "state"
      [] t = "principles." -> "principles"
      [] t = "advice." -> "advice"
      [] t = "situation." -> "situation"
      [] t = "relationship." -> "relationship"
      [] t = "loan." -> "loan"
      [] t = "v." -> "v"
      [] t = "Error:" -> "Error"
      [] t = "Kumar," -> "Kumar"
      [] t = "notice," -> "notice"
      [] t = "Court," -> "Court"
      [] t = "matter," -> "matter"
      [] t = "law," -> "law"
      [] OTHER -> t

\* the lower-case words (\w+ runs) inside one token
TokenWords(t) == IF t = NL THEN {} ELSE {Lower(Bare(t))}

\* a pattern \b(?:w1|w2|...)\b with its multi-word alternatives:
\* words are single words, phrases are sequences of words (\s+ between),
\* ordered are pairs <<A, B>> for "A.*B" on one line
Pat(words, phrases, ordered) ==
    [words |-> words, phrases |-> phrases, ordered |-> ordered]

\* re.search(p, text, re.IGNORECASE)
PatternMatches(text, pat) ==
    \/ \E i \in 1..Len(text) : TokenWords(text[i]) \cap pat.words # {}
    \/ /\ pat.phrases # {}
       /\ \E ws \in {Words(text)} :
             \E ph \in pat.phrases :
                \E i \in 1..(Len(ws) - Len(ph) + 1) :
                   \A k \in 1..Len(ph) : ph[k] \in TokenWords(ws[i + k - 1])
    \/ /\ pat.ordered # {}
       /\ \E lines \in {SplitLines(text)} :
             \E pair \in pat.ordered :
                \E n \in 1..Len(lines) :
                   \E i \in 1..Len(lines[n]) :
                      /\ TokenWords(lines[n][i]) \cap pair[1] # {}
                      /\ \E j \in (i + 1)..Len(lines[n]) :
                            TokenWords(lines[n][j]) \cap pair[2] # {}

TopicOrder ==
    <<"employment", "tenancy", "consumer", "family", "criminal", "debt",
      "privacy", "property">>

TOPIC_PATTERNS(topic) ==
    CASE topic = "employment" ->
           << Pat({"employ", "job", "salary", "wages", "termination", "fired",
                   "dismissal", "workplace", "labour", "labor", "worker",
                   "workman"}, {}, {}),
              Pat({"hr", "employer", "employee", "permanent", "probation"},
                  {<<"contract", "job">>, <<"contract", "work">>}, {}) >>
      [] topic = "tenancy" ->
           << Pat({"tenant", "landlord", "rent", "lease", "eviction", "tenancy",
                   "rental", "pg"}, {<<"paying", "guest">>}, {}),
              Pat({}, {}, {<<{"flat", "apartment", "house", "property"},
                            {"rent", "lease", "owner"}>>}) >>
      [] topic = "consumer" ->
           << Pat({"product", "service", "defective", "refund", "warranty",
                   "consumer", "purchase", "bought", "seller"}, {}, {}),
              Pat({"e-commerce", "delivery"},
                  {<<"online", "order">>, <<"online", "shopping">>}, {}) >>
      [] topic = "family" ->
           << Pat({"divorce", "marriage", "custody", "alimony", "maintenance",
                   "domestic", "spouse", "husband", "wife"}, {}, {}),
              Pat({"matrimonial", "dowry", "dv"},
                  {<<"child", "support">>, <<"domestic", "violence">>}, {}) >>
      [] topic = "criminal" ->
           << Pat({"fir", "arrested", "bail", "crime", "criminal", "theft",
                   "assault", "murder"}, {}, {}),
              Pat({"forgery", "defamation", "cybercrime"},
                  {<<"cyber", "crime">>}, {}) >>
      [] topic = "debt" ->
           << Pat({"debt", "owe", "owes", "owed", "loan", "repay"},
                  {<<"recover", "money">>}, {}),
              Pat({}, {<<"money", "lent">>, <<"money", "borrowed">>,
                       <<"money", "due">>, <<"lent", "money">>,
                       <<"borrowed", "money">>, <<"lend", "money">>}, {}),
              Pat({"dishonour"},
                  {<<"not", "paying">>, <<"not", "returning">>,
                   <<"not", "repaying">>, <<"cheque", "bounce">>}, {}),
              Pat({}, {<<"gave", "money">>, <<"gave", "loan">>,
                       <<"took", "money">>, <<"took", "loan">>,
                       <<"wont", "pay">>, <<"wont", "return">>}, {}) >>
      [] topic = "privacy" ->
           << Pat({"privacy", "surveillance", "spy", "spying", "recording",
                   "camera", "tracking", "hack"}, {}, {}),
              Pat({"monitor", "digital", "screenshot", "chat", "message"},
                  {<<"phone", "tap">>}, {}) >>
      [] OTHER ->
           << Pat({"property", "land", "plot", "registration", "mutation",
                   "inheritance"}, {<<"real", "estate">>}, {}),
              Pat({"will", "succession", "partition", "boundary",
                   "encroachment"}, {}, {}) >>

\* sum(1 for p in patterns if re.search(p, text_lower, re.IGNORECASE))
TopicScore(text, topic) ==
    Cardinality({ k \in 1..Len(TOPIC_PATTERNS(topic)) :
                    PatternMatches(text, TOPIC_PATTERNS(topic)[k]) })

\* max(topic_scores, key = topic_scores.get): the first topic, in the order
\* of TOPIC_PATTERNS, with the highest score
_detect_topic_from_text(text_lower) ==
    LET score == << TopicScore(text_lower, TopicOrder[1]),
                    TopicScore(text_lower, TopicOrder[2]),
                    TopicScore(text_lower, TopicOrder[3]),
                    TopicScore(text_lower, TopicOrder[4]),
                    TopicScore(text_lower, TopicOrder[5]),
                    TopicScore(text_lower, TopicOrder[6]),
                    TopicScore(text_lower, TopicOrder[7]),
                    TopicScore(text_lower, TopicOrder[8]) >>
    IN  IF \A n \in 1..Len(TopicOrder) : score[n] = 0
        THEN "default"
        ELSE TopicOrder[CHOOSE n \in 1..Len(TopicOrder) :
                /\ score[n] > 0
                /\ \A m \in 1..Len(TopicOrder) :
                     /\ score[m] <= score[n]
                     /\ (m < n => score[m] < score[n])]

detect_topic(text, query) ==
    LET query_topic == IF query # <<>> THEN _detect_topic_from_text(query)
                       ELSE "default"
    IN  IF query_topic # "default" THEN query_topic
        ELSE _detect_topic_from_text(text)

(***************************************************************************)
(* Substitution tables on tokens (re.sub with a table of patterns).        *)
(***************************************************************************)
\* A rule is a list of variants, in the order the regular expression tries
\* them at one position, and a replacement.  A variant is a sequence of
\* sets of words; with ignorecase the words are compared in lower case.
Rule(variants, replacement, ignorecase) ==
    [variants |-> variants, replacement |-> replacement, ignorecase |-> ignorecase]

VariantAt(text, i, v, ignorecase) ==
    /\ i + Len(v) - 1 <= Len(text)
    /\ \A k \in 1..Len(v) :
         /\ (IF ignorecase THEN Lower(Bare(text[i + k - 1]))
                           ELSE Bare(text[i + k - 1])) \in v[k]
         /\ (k < Len(v) => Punct(text[i + k - 1]) = "")

\* the length of the match of the rule at position i, 0 if none
MatchLen(text, i, rule) ==
    IF \E n \in 1..Len(rule.variants) :
          VariantAt(text, i, rule.variants[n], rule.ignorecase)
    THEN Len(rule.variants[CHOOSE n \in 1..Len(rule.variants) :
            /\ VariantAt(text, i, rule.variants[n], rule.ignorecase)
            /\ \A m \in 1..(n - 1) :
                 ~VariantAt(text, i, rule.variants[m], rule.ignorecase)])
    ELSE 0

\* the replacement, carrying the punctuation that follows the matched words
WithPunct(replacement, punct) ==
    IF punct = "" \/ replacement = <<>> THEN replacement
    ELSE SubSeq(replacement, 1, Len(replacement) - 1)
         \o <<replacement[Len(replacement)] \o punct>>

\* re.sub(pattern, replacement, text)
RECURSIVE Sub(_, _, _)
Sub(text, i, rule) ==
    LET at == { p \in i..Len(text) : MatchLen(text, p, rule) > 0 }
    IN  IF at = {} THEN SubSeq(text, i, Len(text))
        ELSE LET p == CHOOSE k \in at : \A q \in at : k <= q
                 n == MatchLen(text, p, rule)
             IN  SubSeq(text, i, p - 1)
                 \o WithPunct(rule.replacement, Punct(text[p + n - 1]))
                 \o Sub(text, p + n, rule)

\* for pattern, replacement in table: text = re.sub(pattern, replacement, text)
RECURSIVE SubAll(_, _)
SubAll(text, rules) ==
    IF rules = <<>> THEN text
    ELSE SubAll(Sub(text, 1, Head(rules)), Tail(rules))

(***************************************************************************)
(* Step 2: clean_response (16-58, 312-319).                                *)
(***************************************************************************)
FORBIDDEN_PHRASES ==
    << Rule(<< <<{"You", "you"}, {"should"}>> >>,
            <<"You", "may", "consider">>, FALSE),
       Rule(<< <<{"You", "you"}, {"must"}>> >>,
            <<"It", "may", "be", "advisable", "to">>, FALSE),
       Rule(<< <<{"always"}>> >>, <<"typically">>, FALSE),
       Rule(<< <<{"never"}>> >>, <<"generally", "not">>, FALSE),
       Rule(<< <<{"definitely"}>> >>, <<"likely">>, FALSE),
       Rule(<< <<{"certainly"}>> >>, <<"generally">>, FALSE) >>

clean_response(response) == SubAll(response, FORBIDDEN_PHRASES)

(***************************************************************************)
(* Step 3: fix_escalation_paths and block_police_for_civil_matters         *)
(* (322-391).  No text of the model names a Consumer Forum, so the         *)
(* ESCALATION_FIXES never match and only the police block acts.            *)
(***************************************************************************)
CIVIL_ONLY_TOPICS == {"debt", "contract", "civil", "money_recovery"}

civil_remedy == <<"Civil", "Court,", "legal", "notice,", "or", "mediation">>

police_patterns ==
    << Rule(<< <<{"file"}, {"an", "a"}, {"fir"}, {"at"}, {"the"}, {"police"}, {"station"}>>,
               <<{"file"}, {"an", "a"}, {"fir"}, {"at"}, {"police"}, {"station"}>>,
               <<{"file"}, {"fir"}, {"at"}, {"the"}, {"police"}, {"station"}>>,
               <<{"file"}, {"fir"}, {"at"}, {"police"}, {"station"}>> >>,
            <<"pursue", "civil", "remedies", "through">> \o civil_remedy, TRUE),
       Rule(<< <<{"lodge"}, {"an", "a"}, {"fir"}, {"at", "with"}, {"the"}, {"police"}>>,
               <<{"lodge"}, {"an", "a"}, {"fir"}, {"at", "with"}, {"police"}>>,
               <<{"lodge"}, {"fir"}, {"at", "with"}, {"the"}, {"police"}>>,
               <<{"lodge"}, {"fir"}, {"at", "with"}, {"police"}>> >>,
            <<"file", "a", "civil", "suit", "or", "send", "a", "legal", "notice">>, TRUE),
       Rule(<< <<{"the"}, {"police"}, {"will", "can"}, {"help"}, {"you"}, {"recover"}, {"the"}, {"money"}>>,
               <<{"the"}, {"police"}, {"will", "can"}, {"help"}, {"you"}, {"recover"}>>,
               <<{"the"}, {"police"}, {"will", "can"}, {"help"}, {"you"}, {"the"}, {"money"}>>,
               <<{"the"}, {"police"}, {"will", "can"}, {"help"}, {"you"}>>,
               <<{"the"}, {"police"}, {"will", "can"}, {"help"}, {"recover"}, {"the"}, {"money"}>>,
               <<{"the"}, {"police"}, {"will", "can"}, {"help"}, {"recover"}>>,
               <<{"the"}, {"police"}, {"will", "can"}, {"help"}, {"the"}, {"money"}>>,
               <<{"the"}, {"police"}, {"will", "can"}, {"help"}>> >>,
            <<"Civil", "courts", "can", "help", "through", "a", "money", "suit",
              "to", "recover", "the", "amount">>, TRUE),
       Rule(<< <<{"police"}, {"will", "can"}, {"help", "assist", "recover"}, {"the"}, {"money"}>>,
               <<{"police"}, {"will", "can"}, {"help", "assist", "recover"}>> >>,
            <<"Civil", "remedies", "through", "courts", "can", "help">>, TRUE),
       Rule(<< <<{"file"}, {"an", "a"}, {"fir"}>>, <<{"file"}, {"fir"}>> >>,
            <<"send", "a", "legal", "notice", "or", "file", "a", "civil", "suit">>, TRUE),
       Rule(<< <<{"lodge"}, {"an", "a"}, {"fir"}>>, <<{"lodge"}, {"fir"}>> >>,
            <<"send", "a", "legal", "notice">>, TRUE),
       Rule(<< <<{"approach"}, {"the"}, {"police"}>>, <<{"approach"}, {"police"}>> >>,
            <<"approach">> \o civil_remedy, TRUE),
       Rule(<< <<{"go"}, {"to"}, {"the"}, {"police"}>>, <<{"go"}, {"to"}, {"police"}>> >>,
            <<"go", "to">> \o civil_remedy, TRUE),
       Rule(<< <<{"contact"}, {"the"}, {"police"}>>, <<{"contact"}, {"police"}>> >>,
            <<"send", "a", "legal", "notice", "or", "approach">> \o civil_remedy, TRUE),
       Rule(<< <<{"report"}, {"to"}, {"the"}, {"police"}>>,
               <<{"report"}, {"to"}, {"police"}>> >>,
            <<"pursue", "civil", "remedies">>, TRUE),
       Rule(<< <<{"police"}, {"complaint"}>> >>,
            <<"legal", "notice", "or", "civil", "suit">>, TRUE),
       Rule(<< <<{"at"}, {"the"}, {"police"}, {"station"}>>,
               <<{"at"}, {"police"}, {"station"}>>,
               <<{"the"}, {"police"}, {"station"}>>,
               <<{"police"}, {"station"}>> >>,
            <<"through", "civil", "courts">>, TRUE) >>

civil_note ==
    << NL, NL, "**Important:**", "Non-payment", "of", "debt", "is", "generally",
       "a", "civil", "matter,", "not", "a", "criminal", "offense.", "Police",
       "typically", "cannot", "help", "recover", "private", "debts.", "The",
       "proper", "remedy", "is", "through", "civil", "courts", "or", "legal",
       "notice." >>

\* "**Disclaimer" in text
DisclaimerMarkers == {"**Disclaimer:**", "**Disclaimer**", "**Disclaimer"}

block_police_for_civil_matters(response, topic) ==
    IF topic \notin CIVIL_ONLY_TOPICS THEN response
    ELSE LET fixed == SubAll(response, police_patterns)
         IN  IF /\ \E i \in 1..Len(response) :
                      TokenWords(response[i]) \cap {"police", "fir"} # {}
                /\ topic = "debt"
                /\ ~\E i \in 1..Len(fixed) : PhraseAt(fixed, i, civil_note)
             THEN IF HasToken(fixed, DisclaimerMarkers)
                  THEN InsertBefore(fixed, DisclaimerMarkers, civil_note \o <<NL, NL>>)
                  ELSE rstrip(fixed) \o civil_note
             ELSE fixed

fix_escalation_paths(response, topic) ==
    block_police_for_civil_matters(response, topic)

(***************************************************************************)
(* Step 1: remove_source_blocks (206-211, 465-477).                        *)
(***************************************************************************)
\* \*?\*?Sources?:?\*?\*?:? and the like, as one token (the last word of
\* "Referenced Sections" and "Legal Sources")
\* \*?\*?Sources?:?\*?\*? and \*?\*?References?:?\*?\*? : each table entry
\* is substituted on its own, one after the other
SourceHeaders ==
    {"Sources:", "Source:", "Sources", "**Sources:**", "**Sources**"}

ReferenceHeaders ==
    {"References:", "Reference:", "References", "**References:**"}

\* the tokens that start with two asterisks
StarTokens ==
    {"**Quick", "**Important", "**Important:**", "**Jurisdiction",
     "**Suggested", "**Disclaimer:**", "**Critical", "**Sources:**",
     "**Sources**", "**References:**", "**Note:**"}

\* the number of line breaks from position i on
RECURSIVE Breaks(_, _)
Breaks(text, i) ==
    IF i <= Len(text) /\ text[i] = NL THEN 1 + Breaks(text, i + 1) ELSE 0

\* the end of the line that holds position i
RECURSIVE LineEnd(_, _)
LineEnd(text, i) ==
    IF i >= Len(text) \/ text[i + 1] = NL THEN Min(i, Len(text))
    ELSE LineEnd(text, i + 1)

\* BLOCKS_TO_REMOVE at position i: line breaks, a header, line breaks, a list
\* line; the lazy body stops at the first line end.  The length of the match.
BlockLen(text, i, headers) ==
    LET h == i + Breaks(text, i)
        b == h + 1 + Breaks(text, h + 1)
    IN  IF /\ h <= Len(text) /\ text[h] \in headers
           /\ Breaks(text, h + 1) >= 1
           /\ b <= Len(text)
           /\ text[b] \in {"-", "--", "---", "BULLET", "*"} \cup StarTokens
        THEN LineEnd(text, b) - i + 1
        ELSE 0

RECURSIVE RemoveBlocks(_, _, _)
RemoveBlocks(text, i, headers) ==
    LET at == { p \in i..Len(text) : BlockLen(text, p, headers) > 0 }
    IN  IF at = {} THEN SubSeq(text, i, Len(text))
        ELSE LET p == CHOOSE k \in at : \A q \in at : k <= q
             IN  SubSeq(text, i, p - 1)
                 \o RemoveBlocks(text, p + BlockLen(text, p, headers), headers)

\* re.sub(r"\n\*?\*?Sources?:?\*?\*?\s*\n", "\n", cleaned): a header alone
\* on its line goes, with the line breaks around it, for one line break
RECURSIVE RemoveHeaderLines(_, _, _)
RemoveHeaderLines(text, i, headers) ==
    LET at == { p \in i..(Len(text) - 2) :
                  /\ text[p] = NL /\ text[p + 1] \in headers
                  /\ text[p + 2] = NL }
    IN  IF at = {} THEN SubSeq(text, i, Len(text))
        ELSE LET p == CHOOSE k \in at : \A q \in at : k <= q
             IN  SubSeq(text, i, p - 1) \o <<NL>>
                 \o RemoveHeaderLines(text, p + 2 + Breaks(text, p + 2), headers)

\* 469-475: the substitutions one after the other, each on the result of the
\* one before
remove_source_blocks(response) ==
    CHOOSE cleaned \in
        { RemoveHeaderLines(c3, 1, ReferenceHeaders) :
            c3 \in { RemoveHeaderLines(c2, 1, SourceHeaders) :
                c2 \in { RemoveBlocks(c1, 1, ReferenceHeaders) :
                    c1 \in { RemoveBlocks(response, 1, SourceHeaders) } } } } :
        TRUE

(***************************************************************************)
(* Step 4: truncate_case_law (553-565).                                    *)
(***************************************************************************)
\* [A-Z][a-z]+
CapWords == {"State", "Kumar", "Singh", "Union"}

\* len(): BULLET stands for one character, WARN for two
TokLen(t) == IF t = "BULLET" THEN 1 ELSE IF t = "WARN" THEN 2 ELSE Len(t)

RECURSIVE TextLen(_)
TextLen(line) ==
    IF line = <<>> THEN 0
    ELSE IF Len(line) = 1 THEN TokLen(line[1])
    ELSE TokLen(line[1]) + 1 + TextLen(Tail(line))

\* [A-Z][a-z]+ v\.? [A-Z][a-z]+ at position i of the line
CaseNameAt(line, i) ==
    /\ i + 2 <= Len(line)
    /\ line[i] \in CapWords
    /\ line[i + 1] \in {"v.", "v"}
    /\ Bare(line[i + 2]) \in CapWords

max_case_length == 80

truncate_line(line) ==
    IF \E i \in 1..Len(line) : CaseNameAt(line, i)
    THEN LET i == CHOOSE k \in 1..Len(line) :
                    CaseNameAt(line, k) /\ \A j \in 1..(k - 1) : ~CaseNameAt(line, j)
         IN  IF TextLen(SubSeq(line, i, Len(line))) > max_case_length
             THEN SubSeq(line, 1, i + 1)
                  \o <<Bare(line[i + 2]), "(landmark", "case)">>
             ELSE line
    ELSE line

truncate_case_law(response) ==
    JoinLines([n \in 1..Len(SplitLines(response)) |->
                 truncate_line(SplitLines(response)[n])])

(***************************************************************************)
(* Step 5: format_response_structure (568-597).                            *)
(***************************************************************************)
\* line.startswith('**')
StarStart(line) == line # <<>> /\ line[1] \in StarTokens

BulletStart(line) == line # <<>> /\ line[1] = "BULLET"

\* line.count('.') + line.count('?') + line.count('!')
RECURSIVE SentenceMarks(_)
SentenceMarks(line) ==
    IF line = <<>> THEN 0
    ELSE (IF Head(line) \in DotTokens THEN 1 ELSE 0) + SentenceMarks(Tail(line))

\* the loop over the lines: the quick answer takes the lines up to the
\* fourth sentence mark, list lines and headings excepted
RECURSIVE SortLines(_, _, _, _, _)
SortLines(lines, idx, quick_answer_lines, remaining_lines, sentence_count) ==
    IF idx > Len(lines)
    THEN [quick_answer_lines |-> quick_answer_lines, remaining_lines |-> remaining_lines]
    ELSE LET line == lines[idx]
         IN  IF /\ sentence_count < 4
                /\ ~BulletStart(line) /\ ~StarStart(line)
                /\ ~(line # <<>> /\ line[1] \in {"-", "--", "---"})
             THEN SortLines(lines, idx + 1, Append(quick_answer_lines, line),
                            remaining_lines, sentence_count + SentenceMarks(line))
             ELSE SortLines(lines, idx + 1, quick_answer_lines,
                            Append(remaining_lines, line), sentence_count)

RECURSIVE ContextBullets(_)
ContextBullets(lines) ==
    IF lines = <<>> THEN <<>>
    ELSE (IF Head(lines) # <<>> /\ ~StarStart(Head(lines))
          THEN (IF ~BulletStart(Head(lines)) THEN <<"BULLET">> ELSE <<>>)
               \o Head(lines) \o <<NL>>
          ELSE <<>>)
         \o ContextBullets(Tail(lines))

format_response_structure(response) ==
    IF HasPair(response, {"**Quick", "Quick"}, {"Answer:**", "Answer:"})
    THEN response
    ELSE LET sorted == SortLines(SplitLines(strip(response)), 1, <<>>, <<>>, 0)
             remaining_lines == sorted.remaining_lines
         IN  <<"**Quick", "Answer:**", NL>>
             \o JoinLines(sorted.quick_answer_lines) \o <<NL, NL>>
             \o (IF remaining_lines # <<>>
                 THEN <<"**Important", "Context:**", NL>>
                      \o ContextBullets(SubSeq(remaining_lines, 1,
                                               Min(4, Len(remaining_lines))))
                 ELSE <<>>)

(***************************************************************************)
(* Step 6: the state variation note (145-152, 275-278, 394-422).           *)
(***************************************************************************)
AnyMatches(text, pats) == \E k \in 1..Len(pats) : PatternMatches(text, pats[k])

STATE_SPECIFIC_TOPICS ==
    << Pat({"tenancy", "landlord", "tenant"}, {<<"rent", "control">>}, {}),
       Pat({"labour", "labor"}, {<<"minimum", "wage">>},
           {<<{"shop"}, {"establishment"}>>}),
       Pat({"registration"}, {<<"stamp", "duty">>, <<"property", "tax">>}, {}),
       Pat({"excise", "liquor", "alcohol"}, {}, {}),
       Pat({"agricultural", "farming"}, {<<"land", "reform">>}, {}),
       Pat({"municipal", "panchayat"}, {<<"local", "body">>}, {}) >>

needs_state_variation_note(text) == AnyMatches(text, STATE_SPECIFIC_TOPICS)

state_phrases ==
    << Pat({"state-specific"},
           {<<"vary", "by", "state">>, <<"state's", "law">>, <<"state's", "laws">>,
            <<"your", "state">>, <<"some", "states">>},
           {<<{"depends"}, {"state", "states"}>>}) >>

\* the index of the first blank line (two line breaks in a row) after
\* position from, 0 if none
FirstBlank(text, from) ==
    IF \E i \in from..(Len(text) - 1) : text[i] = NL /\ text[i + 1] = NL
    THEN CHOOSE i \in from..(Len(text) - 1) :
            /\ text[i] = NL /\ text[i + 1] = NL
            /\ \A j \in from..(i - 1) : ~(text[j] = NL /\ text[j + 1] = NL)
    ELSE 0

\* text.replace(a b, a b + block)
RECURSIVE InsertAfterPair(_, _, _, _)
InsertAfterPair(text, a, b, block) ==
    LET at == { p \in 1..(Len(text) - 1) : text[p] = a /\ text[p + 1] = b }
    IN  IF at = {} THEN text
        ELSE LET p == CHOOSE k \in at : \A q \in at : k <= q
             IN  SubSeq(text, 1, p + 1) \o block
                 \o InsertAfterPair(SubSeq(text, p + 2, Len(text)), a, b, block)

add_state_variation_note(response) ==
    IF AnyMatches(response, state_phrases) THEN response
    ELSE IF HasPair(response, {"**Important"}, {"Context:**"})
    THEN InsertAfterPair(response, "**Important", "Context:**",
            << NL, "BULLET", "This", "may", "vary", "by", "state", "-", "some",
               "states", "have", "specific", "laws", "that", "differ" >>)
    ELSE IF HasPair(response, {"**Quick"}, {"Answer:**"})
    THEN LET q == CHOOSE i \in 1..(Len(response) - 1) :
                    /\ response[i] = "**Quick" /\ response[i + 1] = "Answer:**"
                    /\ \A j \in 1..(i - 1) :
                          ~(response[j] = "**Quick" /\ response[j + 1] = "Answer:**")
             b == FirstBlank(response, q + 2)
         IN  IF b > 0
             THEN SubSeq(response, 1, b - 1)
                  \o << NL, NL, "**Important", "Context:**", NL, "BULLET", "State",
                        "laws", "may", "vary", "-", "check", "your", "state's",
                        "specific", "provisions", NL, NL >>
                  \o SubSeq(response, b + 2, Len(response))
             ELSE response
    ELSE response

(***************************************************************************)
(* Step 7: the privacy warning (174-203, 281-306, 425-462, 480-489).       *)
(***************************************************************************)
EVIDENCE_KEYWORDS ==
    << Pat({"record", "recording", "spy", "surveillance", "monitor", "track",
            "hack"}, {}, {}),
       Pat({"screenshot"}, {<<"phone", "tap">>, <<"hidden", "camera">>}, {}),
       Pat({}, {<<"collect", "evidence">>, <<"gather", "evidence">>}, {}),
       Pat({}, {}, {<<{"whatsapp", "sms"}, {"evidence", "proof"}>>}) >>

NORMAL_EVIDENCE_CONTEXTS ==
    << Pat({"receipt", "invoice", "contract", "agreement"},
           {<<"bank", "statement">>}, {}),
       Pat({"witness", "testimony", "document", "letter", "notice"}, {}, {}),
       Pat({"ipc", "criminal"},
           {<<"penal", "code">>, <<"section", "420">>, <<"section", "41">>}, {}) >>

CRIMINAL_CHEATING_CONTEXT ==
    << Pat({"ipc", "section", "bns"}, {<<"penal", "code">>}, {}),
       Pat({"420", "fraud", "dishonest", "property", "induce"}, {}, {}),
       Pat({"criminal", "offense", "offence", "punishment", "imprisonment"},
           {}, {}) >>

FamilyWords == {"divorce", "spouse", "husband", "wife", "marriage"}

FAMILY_EVIDENCE_KEYWORDS ==
    << Pat({}, {}, {<<FamilyWords, {"affair", "cheating", "infidelity", "adultery"}>>}),
       Pat({}, {}, {<<{"affair", "infidelity", "adultery"}, FamilyWords>>}),
       Pat({}, {}, {<<{"whatsapp", "message", "messages", "chat", "screenshot",
                       "screenshots"}, {"court", "evidence", "proof"}>>}),
       Pat({}, {}, {<<{"evidence", "proof"}, {"divorce", "cheating", "affair"}>>}),
       Pat({}, {}, {<<{"husband", "wife", "spouse"}, {"cheating", "affair"}>>}),
       Pat({}, {}, {<<{"prove"}, {"cheating", "affair", "infidelity"}>>}) >>

is_relationship_infidelity ==
    << Pat({}, {}, {<<FamilyWords, {"cheating", "affair", "infidelity"}>>,
                    <<{"cheating", "affair", "infidelity"}, FamilyWords>>}) >>

\* needs_privacy_warning without the criminal-law context check of 290-292
needs_privacy_warning_uncontexted(text) ==
    /\ AnyMatches(text, EVIDENCE_KEYWORDS)
    /\ \/ AnyMatches(text, is_relationship_infidelity)
       \/ ~AnyMatches(text, NORMAL_EVIDENCE_CONTEXTS)

needs_privacy_warning(text) ==
    IF AnyMatches(text, CRIMINAL_CHEATING_CONTEXT) THEN FALSE
    ELSE /\ AnyMatches(text, EVIDENCE_KEYWORDS)
         /\ \/ AnyMatches(text, is_relationship_infidelity)
            \/ ~AnyMatches(text, NORMAL_EVIDENCE_CONTEXTS)

needs_family_evidence_warning(text) ==
    IF AnyMatches(text, CRIMINAL_CHEATING_CONTEXT) THEN FALSE
    ELSE AnyMatches(text, FAMILY_EVIDENCE_KEYWORDS)

strong_warning_phrases ==
    << Pat({}, {<<"without", "consent">>}, {}),
       Pat({"illegal", "illegally"}, {}, {}),
       Pat({}, {<<"separate", "offense">>}, {}),
       Pat({}, {<<"legal", "risk">>, <<"legal", "risks">>}, {}),
       Pat({}, {<<"privacy", "violation">>}, {}),
       Pat({}, {<<"obtaining", "it">>}, {}) >>

\* parts = text.rsplit("---", 1); parts[0] + block + "---" + parts[1]
InsertBeforeLastRule(text, block) ==
    LET i == CHOOSE k \in 1..Len(text) :
                    text[k] = "---" /\ \A j \in (k + 1)..Len(text) : text[j] # "---"
    IN  SubSeq(text, 1, i - 1) \o block \o SubSeq(text, i, Len(text))

add_privacy_warning(response, query) ==
    IF Cardinality({ k \in 1..Len(strong_warning_phrases) :
                       PatternMatches(response, strong_warning_phrases[k]) }) >= 2
    THEN response
    ELSE LET warning ==
                 IF AnyMatches(query \o response, FAMILY_EVIDENCE_KEYWORDS)
                 THEN FAMILY_EVIDENCE_WARNING \o PRIVACY_WARNING_STRONG
                 ELSE PRIVACY_WARNING_STRONG
         IN  IF HasToken(response, DisclaimerMarkers)
             THEN InsertBefore(response, DisclaimerMarkers, warning \o <<NL>>)
             ELSE IF HasToken(response, {"Disclaimer:"})
             THEN InsertBefore(response, {"Disclaimer:"}, warning \o <<NL>>)
             ELSE IF HasToken(response, {"---"})
             THEN InsertBeforeLastRule(response, warning \o <<NL>>)
             ELSE rstrip(response) \o <<NL>> \o warning

(***************************************************************************)
(* Steps 8-10: the jurisdiction note, the next steps and the disclaimer    *)
(* (495-550).                                                              *)
(***************************************************************************)
\* any(phrase in response for phrase in jurisdiction_phrases)
has_jurisdiction(response) ==
    \/ HasPair(response, {"**Jurisdiction", "Jurisdiction"}, {"Note:**", "Note:", "Note"})
    \/ HasPair(response, {"Indian"}, {"law", "law,", "law.", "laws"})
    \/ HasPair(response, {"state's"}, {"law", "law,", "law.", "laws"})
    \/ \E i \in 1..(Len(response) - 2) :
          /\ response[i] = "vary" /\ response[i + 1] = "by"
          /\ response[i + 2] \in {"state", "state.", "state,"}

ensure_jurisdiction_note(response) ==
    IF has_jurisdiction(response) THEN response
    ELSE IF HasToken(response, DisclaimerMarkers)
    THEN InsertBefore(response, DisclaimerMarkers, DEFAULT_JURISDICTION \o <<NL>>)
    ELSE IF HasToken(response, {"---"})
    THEN InsertBeforeLastRule(response, DEFAULT_JURISDICTION)
    ELSE response \o DEFAULT_JURISDICTION

ensure_next_steps(response, topic) ==
    IF HasPair(response, {"Next"}, {"Steps", "Steps:", "Steps:**"}) THEN response
    ELSE LET next_steps ==
                 DEFAULT_NEXT_STEPS_TEMPLATE(
                     <<"If", "unresolved,">> \o CORRECT_ESCALATIONS(topic)
                     \o <<"may", "be", "appropriate">>)
         IN  IF HasToken(response, DisclaimerMarkers)
             THEN InsertBefore(response, DisclaimerMarkers, next_steps \o <<NL>>)
             ELSE IF HasToken(response, {"---"})
             THEN InsertBeforeLastRule(response, next_steps \o <<NL>>)
             ELSE response \o next_steps

\* any(re.search(p, response) for p in disclaimer_patterns)
has_disclaimer(response) ==
    \/ HasToken(response, DisclaimerMarkers \cup {"Disclaimer:", "Disclaimer", "disclaimer"})
    \/ \E i \in 1..(Len(response) - 2) :
          /\ response[i] = "not" /\ response[i + 1] = "legal"
          /\ response[i + 2] \in {"advice", "advice.", "advice,"}
    \/ \E n \in 1..Len(SplitLines(response)) :
          LET line == SplitLines(response)[n]
          IN  \E i, j \in 1..Len(line) :
                 /\ i < j
                 /\ line[i] \in {"consult", "consulting"}
                 /\ line[j] \in {"lawyer", "lawyer.", "lawyer,", "lawyers"}

ensure_disclaimer(response) ==
    IF has_disclaimer(response) THEN response
    ELSE rstrip(response) \o DEFAULT_DISCLAIMER

(***************************************************************************)
(* Step 11: enforce_word_limit (600-621).                                  *)
(***************************************************************************)
\* ---\s*\n*WARN\s*\*\*Disclaimer at position i
DisclaimerAt(text, i) ==
    LET w == i + 1 + Breaks(text, i + 1)
        d == w + 1 + Breaks(text, w + 1)
    IN  /\ text[i] = "---"
        /\ w <= Len(text) /\ text[w] = "WARN"
        /\ d <= Len(text) /\ text[d] \in DisclaimerMarkers

\* the position of the first match, 0 if none
disclaimer_match(text) ==
    IF \E i \in 1..Len(text) : DisclaimerAt(text, i)
    THEN CHOOSE i \in 1..Len(text) :
            DisclaimerAt(text, i) /\ \A j \in 1..(i - 1) : ~DisclaimerAt(text, j)
    ELSE 0

max_words == 280

reserved_words == 30

enforce_word_limit(response, limit) ==
    IF Len(Words(response)) <= limit THEN response
    ELSE LET m == disclaimer_match(response)
             disclaimer == IF m > 0 THEN SubSeq(response, m, Len(response))
                           ELSE DEFAULT_DISCLAIMER
             main_text == IF m > 0 THEN SubSeq(response, 1, m - 1) ELSE response
             main_words == Words(main_text)
             trimmed == IF Len(main_words) > limit - reserved_words
                        THEN SubSeq(main_words, 1, limit - reserved_words - 1)
                             \o <<main_words[limit - reserved_words] \o "...">>
                        ELSE main_text
         IN  strip(trimmed) \o <<NL>> \o disclaimer

(***************************************************************************)
(* post_process_response (627-681).                                        *)
(***************************************************************************)
\* Step 6 (660-662): the state variation note, when the query and the
\* response together call for it
state_note(text, combined_text) ==
    IF needs_state_variation_note(combined_text)
    THEN add_state_variation_note(text) ELSE text

\* Step 7 (664-667): the privacy warning, when the query and the response
\* together call for it
privacy_note(text, query, combined_text) ==
    IF \/ needs_privacy_warning(combined_text)
       \/ needs_family_evidence_warning(combined_text)
    THEN add_privacy_warning(text, query) ELSE text

\* Steps 1-11 (641-681), each applied to the result of the step before
run_steps(response, query, combined_text, topic) ==
    strip(
     enforce_word_limit(
      ensure_disclaimer(
       ensure_next_steps(
        ensure_jurisdiction_note(
         privacy_note(
          state_note(
           format_response_structure(
            truncate_case_law(
             fix_escalation_paths(
              clean_response(
               remove_source_blocks(response)),
              topic))),
           combined_text),
          query, combined_text)),
        topic)),
      max_words))

post_process_response(response, query) ==
    IF response = <<>> \/ Head(response) \in {"Error:", "Error", "Errors"}
    THEN response
    ELSE run_steps(response, query, query \o response,
                   detect_topic(query \o response, query))

(***************************************************************************)
(* The LLM adapters (rag.py 542-673, llm_middleware.py 128-256, 472-505).  *)
(* outcome is what the provider does with the call, text what it           *)
(* generates when it generates something.                                  *)
(***************************************************************************)
OllamaOutcomes == {"ok", "missing", "status", "connection", "timeout", "exception"}

_query_ollama(outcome, text) ==
    CASE outcome = "ok" -> text
      [] outcome = "missing" -> <<"No", "response", "generated", "from", "Ollama">>
      [] outcome = "status" ->
           <<"Error:", "Ollama", "returned", "status", "code", "500">>
      [] outcome = "connection" ->
           <<"Error:", "Cannot", "connect", "to", "Ollama.", "Make", "sure",
             "Ollama", "is", "running", "with", "'ollama", "serve'">>
      [] outcome = "timeout" ->
           <<"Error:", "Request", "timed", "out.", "The", "model", "may", "be",
             "loading", "or", "the", "query", "is", "too", "complex.">>
      [] OTHER -> <<"Error", "querying", "Ollama:", "boom">>

GeminiOutcomes == {"ok", "empty", "api_key", "quota", "timeout", "exception"}

_query_gemini(outcome, text) ==
    CASE outcome = "ok" -> text
      [] outcome = "empty" -> <<"No", "response", "generated", "from", "Gemini">>
      [] outcome = "api_key" ->
           <<"Error:", "Check", "your", "Gemini", "API", "key", "in", "the",
             ".env", "file.">>
      [] outcome = "quota" ->
           <<"Error:", "Gemini", "API", "quota", "exceeded.", "Please", "check",
             "your", "usage", "limits.">>
      [] outcome = "timeout" ->
           <<"Error:", "Request", "timed", "out.", "Please", "try", "again.">>
      [] OTHER -> <<"Error", "querying", "Gemini:", "boom">>

MiddlewareOutcomes ==
    {"ok", "no_choices", "auth", "rate_limit", "http", "timeout", "connection",
     "unexpected", "exception"}

LLMResponse(content, success, error) ==
    [content |-> content, success |-> success, error |-> error]

\* LLMMiddlewareClient.chat_rest
chat_rest(outcome, text) ==
    CASE outcome = "ok" -> LLMResponse(text, TRUE, <<>>)
      [] outcome = "no_choices" -> LLMResponse(<<>>, TRUE, <<>>)
      [] outcome = "auth" ->
           LLMResponse(<<>>, FALSE, <<"Authentication", "failed.", "Check", "your",
                                      "LLM_MIDDLEWARE_SECRET.">>)
      [] outcome = "rate_limit" ->
           LLMResponse(<<>>, FALSE, <<"Rate", "limit", "exceeded.", "The",
                                      "middleware", "will", "retry",
                                      "automatically.">>)
      [] outcome = "http" ->
           LLMResponse(<<>>, FALSE, <<"HTTP", "500:", "Unknown", "error">>)
      [] outcome = "timeout" ->
           LLMResponse(<<>>, FALSE, <<"Request", "timed", "out", "after", "120s.",
                                      "Try", "increasing",
                                      "LLM_MIDDLEWARE_TIMEOUT.">>)
      [] outcome = "connection" ->
           LLMResponse(<<>>, FALSE, <<"Cannot", "connect", "to", "middleware",
                                      "at", "http://localhost:3000.", "Is", "the",
                                      "server", "running?">>)
      [] OTHER -> LLMResponse(<<>>, FALSE, <<"Unexpected", "error:", "boom">>)

\* LLMMiddlewareClient.generate
generate(outcome, text) ==
    LET response == chat_rest(outcome, text)
    IN  IF response.success THEN response.content
        ELSE <<"Error:">> \o response.error

_query_middleware(outcome, text) ==
    IF outcome = "exception"
    THEN <<"Error", "querying", "LLM", "Middleware:", "boom">>
    ELSE generate(outcome, text)

\* the adapter that ask calls (rag.py 740-748)
Adapter(cfg, used_web_search) ==
    IF used_web_search /\ cfg.use_gemini_for_web /\ cfg.has_gemini_model
    THEN "gemini"
    ELSE IF cfg.llm_provider = "middleware" THEN "middleware"
    ELSE IF cfg.llm_provider = "ollama" THEN "ollama"
    ELSE "gemini"

AdapterOutcomes(adapter) ==
    CASE adapter = "ollama" -> OllamaOutcomes
      [] adapter = "gemini" -> GeminiOutcomes
      [] OTHER -> MiddlewareOutcomes

query_adapter(adapter, outcome, text) ==
    CASE adapter = "ollama" -> _query_ollama(outcome, text)
      [] adapter = "gemini" -> _query_gemini(outcome, text)
      [] OTHER -> _query_middleware(outcome, text)

(***************************************************************************)
(* Web search (web_search.py 52-160).                                      *)
(***************************************************************************)
\* the most results one search returns
MaxWebResults == 4

max_content_length == 800

\* the i-th page Tavily returns; the second is longer than max_content_length
WebPage(i) ==
    [title |-> "Page " \o ToString(i),
     url |-> "https://indiankanoon.org/doc/" \o ToString(i),
     content |-> Filler(IF i = 2 THEN 900 ELSE 20),
     score |-> 10 - i]

WebOutcomes ==
    [kind : {"status", "timeout", "exception"}, n : {0}]
    \cup [kind : {"ok"}, n : 0..MaxWebResults]

is_tavily_configured(cfg) == cfg.tavily_configured

search_legal_web(cfg, outcome) ==
    IF ~cfg.tavily_configured \/ outcome.kind # "ok"
    THEN [success |-> FALSE, results |-> <<>>]
    ELSE [success |-> TRUE, results |-> [i \in 1..outcome.n |-> WebPage(i)]]

\* content[:max_content_length] + "..." (contents are fillers)
Truncated(content) ==
    IF Len(content) > max_content_length
    THEN Filler(max_content_length) \o "..."
    ELSE content

format_web_results_as_context(search_results) ==
    IF ~search_results.success \/ search_results.results = <<>>
    THEN "General legal principles apply. Specifics may vary by situation."
    ELSE LET results == search_results.results
             shown == SubSeq(results, 1, Min(2, Len(results)))
         IN  Join(<<"**Legal Information from Authoritative Sources:**\n">>
                  \o [i \in 1..Len(shown) |->
                        "\n[Source " \o ToString(i) \o ": " \o shown[i].title
                        \o "]\n" \o Truncated(shown[i].content) \o "\n"],
                  "\n")

(***************************************************************************)
(* RAGPipeline.ask (rag.py 701-794) and the /ask endpoint (main.py         *)
(* 125-131, 193-220).                                                      *)
(***************************************************************************)
\* ask with the web search tried before the relevance gate is consulted
Contextualise_ungated(cfg, query, retrieved_docs, web_outcome) ==
    LET use_local_db == _check_relevance(retrieved_docs, query)
        web_search_results == search_legal_web(cfg, web_outcome)
    IN  IF ~is_tavily_configured(cfg)
        THEN [use_local_db |-> use_local_db, used_web_search |-> FALSE,
              web_calls |-> 0,
              web_search_results |-> [success |-> FALSE, results |-> <<>>],
              context |-> build_context(retrieved_docs)]
        ELSE IF web_search_results.success /\ web_search_results.results # <<>>
        THEN [use_local_db |-> use_local_db, used_web_search |-> TRUE,
              web_calls |-> 1,
              web_search_results |-> web_search_results,
              context |-> format_web_results_as_context(web_search_results)]
        ELSE [use_local_db |-> use_local_db, used_web_search |-> FALSE,
              web_calls |-> 1,
              web_search_results |-> web_search_results,
              context |-> build_context(retrieved_docs)]

\* lines 718-736 without the test of line 724: whatever the search returned
\* is used as the web context
Contextualise_unchecked(cfg, query, retrieved_docs, web_outcome) ==
    LET use_local_db == _check_relevance(retrieved_docs, query)
        web_search_results == search_legal_web(cfg, web_outcome)
    IN  IF use_local_db \/ ~is_tavily_configured(cfg)
        THEN [use_local_db |-> use_local_db, used_web_search |-> FALSE,
              web_calls |-> 0,
              web_search_results |-> [success |-> FALSE, results |-> <<>>],
              context |-> build_context(retrieved_docs)]
        ELSE [use_local_db |-> FALSE, used_web_search |-> TRUE, web_calls |-> 1,
              web_search_results |-> web_search_results,
              context |-> format_web_results_as_context(web_search_results)]

\* lines 718-736: the context and the web fallback.  web_calls counts the
\* calls of search_legal_web.
Contextualise(cfg, query, retrieved_docs, web_outcome) ==
    LET use_local_db == _check_relevance(retrieved_docs, query)
        web_search_results == search_legal_web(cfg, web_outcome)
    IN  IF use_local_db \/ ~is_tavily_configured(cfg)
        THEN [use_local_db |-> use_local_db, used_web_search |-> FALSE,
              web_calls |-> 0,
              web_search_results |-> [success |-> FALSE, results |-> <<>>],
              context |-> build_context(retrieved_docs)]
        ELSE IF web_search_results.success /\ web_search_results.results # <<>>
        THEN [use_local_db |-> FALSE, used_web_search |-> TRUE, web_calls |-> 1,
              web_search_results |-> web_search_results,
              context |-> format_web_results_as_context(web_search_results)]
        ELSE [use_local_db |-> FALSE, used_web_search |-> FALSE, web_calls |-> 1,
              web_search_results |-> web_search_results,
              context |-> IF retrieved_docs = <<>>
                          THEN "No relevant information found in local database or web search for: "
                               \o Join(query, " ")
                          ELSE build_context(retrieved_docs)]

\* the web sources without the [:3] slice
WebSources_unsliced(results) ==
    [i \in 1..Len(results) |->
        [source |-> results[i].title, section |-> "Web", type |-> "web",
         url |-> results[i].url, distance |-> 10 - results[i].score]]

\* lines 755-762
WebSources(results) ==
    [i \in 1..Min(3, Len(results)) |->
        [source |-> results[i].title, section |-> "Web", type |-> "web",
         url |-> results[i].url, distance |-> 10 - results[i].score]]

\* lines 764-786 (the corpus of the model stores no url)
LocalSources(retrieved_docs) ==
    [i \in 1..Min(3, Len(retrieved_docs)) |->
        LET meta == retrieved_docs[i].metadata
        IN  [source |-> CASE meta.type = "ipc" -> "IPC Section " \o meta.section_number
                          [] meta.type = "crpc" -> "CrPC Section " \o meta.section_number
                          [] meta.type = "cpc" -> "CPC Section " \o meta.section_number
                          [] meta.type = "evidence" ->
                               "Evidence Act Section " \o meta.section_number
                          [] OTHER -> meta.source,
             section |-> meta.section_number, type |-> meta.type, url |-> "",
             distance |-> retrieved_docs[i].distance]]

\* lines 752-786
Sources(used_web_search, web_search_results, retrieved_docs) ==
    IF used_web_search
    THEN WebSources(web_search_results.results)
    ELSE LocalSources(retrieved_docs)

\* lines 788-794: the dictionary ask returns
AskResult(answer, query, retrieved_docs, used_web_search, sources) ==
    [answer |-> answer, query |-> query,
     num_retrieved_docs |-> Len(retrieved_docs),
     used_web_search |-> used_web_search, sources |-> sources]

\* main.py 125-131, 211-216: used_web_search is not passed and takes the
\* default of the field
QueryResponse(result) ==
    [status |-> 200, answer |-> result.answer, query |-> result.query,
     num_retrieved_docs |-> result.num_retrieved_docs,
     used_web_search |-> FALSE, sources |-> result.sources]

(***************************************************************************)
(* State.  One behaviour is one call: the service keeps nothing between    *)
(* requests but the collection and its configuration.                      *)
(***************************************************************************)
VARIABLES
    collection,   \* the chunk ids stored in the vector collection
    config,       \* the pipeline's configuration, fixed by __init__
    retrieval,    \* a call of retrieve_documents and of the relevance gate
    request,      \* a call of the /ask endpoint
    assembly,     \* a call of build_context
    processing,   \* a call of post_process_response
    client,       \* the shared LLMMiddlewareClient and the threads calling it
    process,      \* the process: its singleton handles and its start-up
    extraction,   \* a call of extract_section_info
    chunking      \* a call of chunk_text of the indexing script

vars ==
    <<collection, config, retrieval, request, assembly, processing,
      client, process, extraction, chunking>>

Queries ==
    UNION { [1..n -> QueryTokens] : n \in 1..MaxQueryLen }

\* What the collaborators may do during one retrieval.  The ranking is left
\* empty when the call never reaches collection.query.
RetrievalIo(coll, n) ==
    { io \in [exact_fails : BOOLEAN, embed_fails : BOOLEAN, query_fails : BOOLEAN,
              ranking : Rankings(coll, n) \cup {<<>>}] :
        IF io.embed_fails \/ io.query_fails
        THEN io.ranking = <<>>
        ELSE io.ranking \in Rankings(coll, n) }

IdleRetrieval ==
    [phase |-> "idle", query |-> <<>>, top_k |-> 0,
     io |-> [exact_fails |-> FALSE, embed_fails |-> FALSE,
             query_fails |-> FALSE, ranking |-> <<>>],
     raised |-> FALSE, docs |-> <<>>, relevant |-> FALSE]

\* RAGPipeline.__init__ (rag.py 296-354) on the environment of config.py:
\* the pipeline has a Gemini model when Gemini is the provider, or when it is
\* enabled for web results next to Ollama and a key is set
RAGPipeline_init(LLM_PROVIDER, USE_GEMINI_FOR_WEB_SEARCH, GEMINI_API_KEY, TAVILY_API_KEY) ==
    LET gemini_for_ollama ==
            USE_GEMINI_FOR_WEB_SEARCH /\ LLM_PROVIDER = "ollama" /\ GEMINI_API_KEY
    IN  [tavily_configured |-> TAVILY_API_KEY,
         llm_provider |-> LLM_PROVIDER,
         use_gemini_for_web |->
             IF USE_GEMINI_FOR_WEB_SEARCH /\ LLM_PROVIDER = "ollama"
             THEN gemini_for_ollama ELSE USE_GEMINI_FOR_WEB_SEARCH,
         has_gemini_model |-> LLM_PROVIDER = "gemini" \/ gemini_for_ollama]

\* the defaults of config.py: the middleware provider, no Tavily key
DefaultConfig == RAGPipeline_init("middleware", TRUE, FALSE, FALSE)

\* the environments in which __init__ succeeds: Gemini as the provider
\* needs its key.  USE_GEMINI_FOR_WEB_SEARCH keeps its default.
Environments ==
    { e \in [LLM_PROVIDER : {"middleware", "ollama", "gemini"},
             USE_GEMINI_FOR_WEB_SEARCH : {TRUE},
             GEMINI_API_KEY : BOOLEAN,
             TAVILY_API_KEY : BOOLEAN] :
        e.LLM_PROVIDER = "gemini" => e.GEMINI_API_KEY }

Configs ==
    { RAGPipeline_init(e.LLM_PROVIDER, e.USE_GEMINI_FOR_WEB_SEARCH,
                       e.GEMINI_API_KEY, e.TAVILY_API_KEY) : e \in Environments }

NoResponse ==
    [status |-> 0, answer |-> <<>>, query |-> <<>>, num_retrieved_docs |-> 0,
     used_web_search |-> FALSE, sources |-> <<>>]

IdleRequest ==
    [phase |-> "idle", query |-> <<>>, raised |-> FALSE, exact_hits |-> 0,
     retrieved_docs |-> <<>>, use_local_db |-> FALSE, used_web_search |-> FALSE,
     web_calls |-> 0, web_search_results |-> [success |-> FALSE, results |-> <<>>], context |-> "",
     adapter |-> "", outcome |-> "", raw_answer |-> <<>>,
     result |-> [answer |-> <<>>, query |-> <<>>, num_retrieved_docs |-> 0,
                used_web_search |-> FALSE, sources |-> <<>>],
     response |-> NoResponse]

IdleAssembly == [phase |-> "idle", documents |-> <<>>, context |-> ""]

IdleProcessing ==
    [phase |-> "idle", adapter |-> "", outcome |-> "", response |-> <<>>,
     query |-> <<>>, result |-> <<>>, step |-> "", again |-> <<>>]

\* the threads that call the client
Callers == 1..MaxCallers

\* LLMMiddlewareClient.__init__ (llm_middleware.py 92-100): no socket, not
\* authenticated, the lock free; no thread is inside a call
NewClient(use_websocket) ==
    [use_websocket |-> use_websocket,
     ws |-> "none",
     authenticated |-> FALSE,
     lock |-> 0,
     pending |-> {},
     inbox |-> <<>>,
     pc |-> [t \in Callers |-> "idle"],
     got |-> [t \in Callers |-> 0],
     result |-> [t \in Callers |-> "none"]]

\* LLM_MIDDLEWARE_USE_WEBSOCKET defaults to false (config.py 50)
IdleClient == NewClient(FALSE)

\* the lazily created module-level handles: _rag_pipeline (rag.py 795),
\* _embedding_model (embed.py 178), _llm_client (llm_middleware.py 552)
Kinds == {"rag", "embed", "llm"}

\* what the Chroma directory holds when the process starts: no collection,
\* a collection without documents, the indexed collection
Stores == {"missing", "empty", "indexed"}

\* a fresh process: every handle is None, nothing was constructed, no thread
\* is inside a getter, start-up has not run
NewProcess(store) ==
    [store |-> store,
     phase |-> "starting",
     instance |-> [h \in Kinds |-> FALSE],
     built |-> [h \in Kinds |-> 0],
     stack |-> [t \in Callers |-> <<>>],
     raised |-> [t \in Callers |-> FALSE]]

IdleProcess == NewProcess("indexed")

\* a text as chunk_text sees it: its length and the 0-based positions of its
\* spaces and of its sentence marks (., !, ?)
NoText == [len |-> 0, spaces |-> {}, marks |-> {}]

IdleChunking ==
    [phase |-> "idle", text |-> NoText, start |-> 0, chunks |-> <<>>]

IdleExtraction ==
    [phase |-> "idle", query |-> <<>>,
     ref |-> [section_num |-> None, act_type |-> None]]

(***************************************************************************)
(* retrieve_documents and the relevance gate, called with any top_k.       *)
(***************************************************************************)
InitRetrieve ==
    /\ collection \in SUBSET ChunkIds
    /\ config = DefaultConfig
    /\ retrieval = IdleRetrieval
    /\ request = IdleRequest
    /\ assembly = IdleAssembly
    /\ processing = IdleProcessing
    /\ client = IdleClient
    /\ process = IdleProcess
    /\ extraction = IdleExtraction
    /\ chunking = IdleChunking

\* retrieve_documents(query, top_k), called directly
RetrieveDocuments ==
    /\ retrieval.phase = "idle"
    /\ \E query \in Queries, top_k \in 1..MaxTopK :
         \E io \in RetrievalIo(collection, top_k) :
            \E r \in {retrieve_documents(collection, io, query, top_k)} :
                retrieval' = [phase |-> "retrieved", query |-> query,
                              top_k |-> top_k, io |-> io,
                              raised |-> r.raised, docs |-> r.docs,
                              relevant |-> FALSE]
    /\ UNCHANGED <<collection, config, request, assembly, processing, client, process, extraction, chunking>>

\* _check_relevance(retrieved_docs, query) on the list just retrieved
\* (rag.py 712-714)
CheckRelevance ==
    /\ retrieval.phase = "retrieved"
    /\ ~retrieval.raised
    /\ retrieval' = [retrieval EXCEPT
                       !.phase = "checked",
                       !.relevant = _check_relevance(retrieval.docs, retrieval.query)]
    /\ UNCHANGED <<collection, config, request, assembly, processing, client, process, extraction, chunking>>

NextRetrieve == RetrieveDocuments \/ CheckRelevance

SpecRetrieve == InitRetrieve /\ [][NextRetrieve]_vars

(***************************************************************************)
(* The /ask endpoint: one request through ask_question and                 *)
(* RAGPipeline.ask, in the order of the code.                              *)
(***************************************************************************)
\* the questions asked: one that names a section, one that names none
AskQueries == {<<"IPC", "420">>, <<"law">>}

\* what the model generates
LlmTexts ==
    {<<"Cheating", "is", "punishable.">>,
     <<"You", "must", "consult", "a", "lawyer.">>}

Init ==
    \* the collections behind the endpoint: at most one chunk of a section
    /\ collection \in SUBSET {1, 3}
    /\ config \in Configs
    /\ retrieval = IdleRetrieval
    /\ request = IdleRequest
    /\ assembly = IdleAssembly
    /\ processing = IdleProcessing
    /\ client = IdleClient
    /\ process = IdleProcess
    /\ extraction = IdleExtraction
    /\ chunking = IdleChunking

\* rag.py 712: retrieved_docs = self.retrieve_documents(query)
AskRetrieve ==
    /\ request.phase = "idle"
    /\ \E query \in AskQueries :
         \E io \in RetrievalIo(collection, TOP_K_RESULTS) :
            \E r \in {retrieve_documents(collection, io, query, TOP_K_RESULTS)},
               ref \in {extract_section_info(query)} :
                request' = [request EXCEPT
                    !.phase = "retrieved",
                    !.query = query,
                    !.raised = r.raised,
                    !.exact_hits =
                        IF ref.section_num # None /\ ~io.exact_fails
                        THEN Len(collection_get(collection, ref.section_num,
                                                ref.act_type))
                        ELSE 0,
                    !.retrieved_docs = r.docs]
    /\ UNCHANGED <<collection, config, retrieval, assembly, processing, client, process, extraction, chunking>>

\* rag.py 714-738: the relevance gate, the web fallback and the context
AskContext ==
    /\ request.phase = "retrieved"
    /\ ~request.raised
    /\ \E web_outcome \in WebOutcomes :
         \E c \in {Contextualise(config, request.query,
                                 request.retrieved_docs, web_outcome)} :
             request' = [request EXCEPT
                 !.phase = "context",
                 !.use_local_db = c.use_local_db,
                 !.used_web_search = c.used_web_search,
                 !.web_calls = c.web_calls,
                 !.web_search_results = c.web_search_results,
                 !.context = c.context]
    /\ UNCHANGED <<collection, config, retrieval, assembly, processing, client, process, extraction, chunking>>

\* rag.py 740-794: the LLM call, the post-processing, the sources and the
\* returned dictionary
AskGenerate ==
    /\ request.phase = "context"
    /\ LET adapter == Adapter(config, request.used_web_search)
       \* the provider generates, generates nothing, times out, or the
       \* call raises
       IN  \E outcome \in AdapterOutcomes(adapter) \cap
                  {"ok", "missing", "empty", "no_choices", "timeout", "exception"},
              text \in LlmTexts :
              \E raw_answer \in {query_adapter(adapter, outcome, text)} :
              LET answer == post_process_response(raw_answer, request.query)
                  sources == Sources(request.used_web_search,
                                     request.web_search_results,
                                     request.retrieved_docs)
              IN  request' = [request EXCEPT
                      !.phase = "answered",
                      !.adapter = adapter,
                      !.outcome = outcome,
                      !.raw_answer = raw_answer,
                      !.result = AskResult(answer, request.query,
                                           request.retrieved_docs,
                                           request.used_web_search, sources)]
    /\ UNCHANGED <<collection, config, retrieval, assembly, processing, client, process, extraction, chunking>>

\* main.py 211-216: the response built from the dictionary
AskRespond ==
    /\ request.phase = "answered"
    /\ request' = [request EXCEPT
                     !.phase = "responded",
                     !.response = QueryResponse(request.result)]
    /\ UNCHANGED <<collection, config, retrieval, assembly, processing, client, process, extraction, chunking>>

\* main.py 218-222: an exception of the pipeline becomes an HTTP 500
AskFail ==
    /\ request.phase = "retrieved"
    /\ request.raised
    /\ request' = [request EXCEPT
                     !.phase = "responded",
                     !.response = [NoResponse EXCEPT !.status = 500]]
    /\ UNCHANGED <<collection, config, retrieval, assembly, processing, client, process, extraction, chunking>>

Next == AskRetrieve \/ AskContext \/ AskGenerate \/ AskRespond \/ AskFail

Spec == Init /\ [][Next]_vars

(***************************************************************************)
(* post_process_response called on what an adapter returns.                *)
(***************************************************************************)
InitPost ==
    /\ collection = {}
    /\ config = DefaultConfig
    /\ retrieval = IdleRetrieval
    /\ request = IdleRequest
    /\ assembly = IdleAssembly
    /\ processing = IdleProcessing
    /\ client = IdleClient
    /\ process = IdleProcess
    /\ extraction = IdleExtraction
    /\ chunking = IdleChunking

\* a generated text that advises covert recording in a marriage dispute
SpyTexts ==
    {<<"You", "can", "record", "your", "wife", "cheating.">>}

\* generated texts about an unpaid loan: advice to go to the police, a text
\* with its own next steps, texts that are already structured
DebtTexts ==
    LET unpaid == <<"He", "is", "not", "paying", "the", "loan.">>
        quick == <<"Quick", "Answer:">> \o unpaid \o <<"File", "an", "FIR.">>
    IN  { unpaid \o <<"File", "an", "FIR", "at", "the", "police", "station.">>,
          unpaid \o <<"You", "can", "call", "the", "police.">>,
          <<"Next", "Steps:", "repay", "the", "loan.">>,
          quick,
          quick \o <<NL, "**Disclaimer:**", "one", NL, "**Disclaimer**", "two">> }

\* the number of words the long text carries after its disclaimer heading
LongBlockWords == 270

\* a generated text that already has the required sections and is longer
\* than the word ceiling: its closing block runs on after the disclaimer
\* heading
LongTexts ==
    { <<"Quick", "Answer:", "Under", "Indian", "law", "cheating", "is",
        "punishable.", "Next", "Steps:", "none.", NL, "---", NL, "WARN",
        "**Disclaimer:**">> \o [i \in 1..LongBlockWords |-> "word"] }

PostProcess ==
    /\ processing.phase = "idle"
    /\ \E adapter \in {"middleware", "ollama", "gemini"}, query \in Queries :
         \E outcome \in AdapterOutcomes(adapter) :
            \* a text is generated only when the call succeeds
            \E text \in IF outcome = "ok"
                        THEN LlmTexts \cup DebtTexts \cup LongTexts \cup SpyTexts
                        ELSE {<<>>} :
            \E response \in {query_adapter(adapter, outcome, text)} :
                processing' = [phase |-> "done", adapter |-> adapter,
                               outcome |-> outcome, response |-> response,
                               query |-> query,
                               result |-> post_process_response(response, query),
                               step |-> "", again |-> <<>>]
    /\ UNCHANGED <<collection, config, retrieval, request, assembly, client, process, extraction, chunking>>

NextPost == PostProcess

SpecPost == InitPost /\ [][NextPost]_vars

(***************************************************************************)
(* build_context called on any candidate list.                             *)
(***************************************************************************)
\* content lengths: a short chunk, two that fill the budget exactly when
\* their segments are added up, one whose segment alone exceeds it
(***************************************************************************)
(* The steps of the response pipeline, each applied on its own and then    *)
(* once more to its own output (response_processor.py 643-679).            *)
(***************************************************************************)
Steps ==
    {"remove_source_blocks", "clean_response", "fix_escalation_paths",
     "truncate_case_law", "format_response_structure",
     "add_state_variation_note", "add_privacy_warning",
     "ensure_jurisdiction_note", "ensure_next_steps", "ensure_disclaimer",
     "enforce_word_limit"}

Step(name, text, query, topic) ==
    CASE name = "remove_source_blocks" -> remove_source_blocks(text)
      [] name = "clean_response" -> clean_response(text)
      [] name = "fix_escalation_paths" -> fix_escalation_paths(text, topic)
      [] name = "truncate_case_law" -> truncate_case_law(text)
      [] name = "format_response_structure" -> format_response_structure(text)
      [] name = "add_state_variation_note" -> add_state_variation_note(text)
      [] name = "add_privacy_warning" -> add_privacy_warning(text, query)
      [] name = "ensure_jurisdiction_note" -> ensure_jurisdiction_note(text)
      [] name = "ensure_next_steps" -> ensure_next_steps(text, topic)
      [] name = "ensure_disclaimer" -> ensure_disclaimer(text)
      [] OTHER -> enforce_word_limit(text, max_words)

\* generated texts that list their sources
SourceTexts ==
    LET body == <<"Cheating", "is", "punishable.">>
    IN  { body \o <<NL, "Sources:", NL, "Sources:", NL, "IPC">>,
          body \o <<NL, "Sources:", NL, "References:", NL, "IPC">>,
          body \o <<NL, NL, "Sources:", NL, "-", "IPC", NL, "-", "law", NL,
                    "References:", NL, "-", "IPC">> }

InitSteps ==
    /\ collection = {}
    /\ config = DefaultConfig
    /\ retrieval = IdleRetrieval
    /\ request = IdleRequest
    /\ assembly = IdleAssembly
    /\ processing = IdleProcessing
    /\ client = IdleClient
    /\ process = IdleProcess
    /\ extraction = IdleExtraction
    /\ chunking = IdleChunking

\* one step on a generated text
ApplyStep ==
    /\ processing.phase = "idle"
    /\ \E name \in Steps, query \in AskQueries,
          text \in LlmTexts \cup DebtTexts \cup LongTexts \cup SpyTexts \cup SourceTexts :
         \E topic \in {detect_topic(query \o text, query)} :
            processing' = [IdleProcessing EXCEPT
                             !.phase = "stepped", !.step = name,
                             !.query = query, !.response = text,
                             !.result = Step(name, text, query, topic)]
    /\ UNCHANGED <<collection, config, retrieval, request, assembly, client, process, extraction, chunking>>

\* the same step on its own output
ApplyAgain ==
    /\ processing.phase = "stepped"
    /\ \E topic \in {detect_topic(processing.query \o processing.response,
                                   processing.query)} :
          processing' = [processing EXCEPT
                           !.phase = "repeated",
                           !.again = Step(processing.step, processing.result,
                                          processing.query, topic)]
    /\ UNCHANGED <<collection, config, retrieval, request, assembly, client, process, extraction, chunking>>

NextSteps == ApplyStep \/ ApplyAgain

SpecSteps == InitSteps /\ [][NextSteps]_vars

ContentLens == {10, 1186, 2437}

ContextDocs ==
    [content : { Filler(n) : n \in ContentLens },
     metadata : [type : {"ipc", "judgment"},
                 section_number : {"420"},
                 section_title : {"", "Cheating in The Indian Penal Code"},
                 source : {"IndianKanoon.org"},
                 chunk_index : {0}],
     distance : {5}]

CandidateLists ==
    UNION { [1..n -> ContextDocs] : n \in 0..MaxDocs }

InitContext ==
    /\ collection = {}
    /\ config = DefaultConfig
    /\ retrieval = IdleRetrieval
    /\ request = IdleRequest
    /\ assembly = IdleAssembly
    /\ processing = IdleProcessing
    /\ client = IdleClient
    /\ process = IdleProcess
    /\ extraction = IdleExtraction
    /\ chunking = IdleChunking

BuildContext ==
    /\ assembly.phase = "idle"
    /\ \E documents \in CandidateLists :
         assembly' = [phase |-> "built", documents |-> documents,
                      context |-> build_context(documents)]
    /\ UNCHANGED <<collection, config, retrieval, request, processing, client, process, extraction, chunking>>

NextContext == BuildContext

SpecContext == InitContext /\ [][NextContext]_vars

(***************************************************************************)
(* LLMMiddlewareClient shared by the request threads (llm_middleware.py    *)
(* 260-470).  client.lock is the owner of _ws_lock, a threading.Lock, 0    *)
(* when free; client.pending are the chat requests the middleware has not  *)
(* answered; client.inbox are the answers waiting on the socket.           *)
(***************************************************************************)
InitWs ==
    /\ collection = {}
    /\ config = DefaultConfig
    /\ retrieval = IdleRetrieval
    /\ request = IdleRequest
    /\ assembly = IdleAssembly
    /\ processing = IdleProcessing
    /\ client \in { NewClient(u) : u \in BOOLEAN }
    /\ process = IdleProcess
    /\ extraction = IdleExtraction
    /\ chunking = IdleChunking

Rest == <<collection, config, retrieval, request, assembly, processing,
         process, extraction,
         chunking>>

\* chat (467-470): the configured transport
Call(t) ==
    /\ client.pc[t] = "idle"
    /\ client' = [client EXCEPT
                    !.pc[t] = IF client.use_websocket THEN "connect" ELSE "rest"]
    /\ UNCHANGED Rest

\* _connect_websocket, `with self._ws_lock` (267): blocks until the lock is free
ConnectAcquire(t) ==
    /\ client.pc[t] = "connect"
    /\ client.lock = 0
    /\ client' = [client EXCEPT !.lock = t, !.pc[t] = "connecting"]
    /\ UNCHANGED Rest

\* 268-269: already connected and authenticated; the return releases the lock
ConnectAlready(t) ==
    /\ client.pc[t] = "connecting"
    /\ client.ws = "open" /\ client.authenticated
    /\ client' = [client EXCEPT !.lock = 0, !.pc[t] = "send"]
    /\ UNCHANGED Rest

\* what the middleware does to a connection attempt: it authenticates the
\* client, it rejects the secret code, or the connection is refused or times
\* out before a socket exists
ConnectOutcomes == {"auth_success", "auth_rejected", "refused"}

\* 271-311: create_connection, the auth exchange; on failure the method calls
\* _close_websocket while it still holds the lock
ConnectEstablish(t) ==
    /\ client.pc[t] = "connecting"
    /\ ~(client.ws = "open" /\ client.authenticated)
    /\ \E outcome \in ConnectOutcomes :
         client' =
            IF outcome = "auth_success"
            THEN [client EXCEPT !.ws = "open", !.authenticated = TRUE,
                                !.pending = {}, !.inbox = <<>>,
                                !.lock = 0, !.pc[t] = "send"]
            ELSE IF outcome = "auth_rejected"
            THEN [client EXCEPT !.ws = "open", !.pending = {}, !.inbox = <<>>,
                                !.pc[t] = "close_in_connect"]
            ELSE [client EXCEPT !.pc[t] = "close_in_connect"]
    /\ UNCHANGED Rest

\* _close_websocket (313-322): `with self._ws_lock` needs the lock free, also
\* when the caller is _connect_websocket; then _connect_websocket returns
\* False and chat_websocket falls back to chat_rest (347-351), while the
\* exception handlers of chat_websocket return a failed LLMResponse (425-444)
CloseWebsocket(t) ==
    /\ client.pc[t] \in {"close_in_connect", "close_in_chat"}
    /\ client.lock = 0
    /\ client' = [client EXCEPT
                    !.ws = "none", !.authenticated = FALSE,
                    !.pending = {}, !.inbox = <<>>,
                    !.pc[t] = IF client.pc[t] = "close_in_connect"
                              THEN "rest" ELSE "returned",
                    !.result[t] = IF client.pc[t] = "close_in_connect"
                                  THEN "none" ELSE "error"]
    /\ UNCHANGED Rest

\* 353-370: self._ws.send(request), outside the lock; it raises when another
\* thread has closed the socket or the connection broke
Send(t) ==
    /\ client.pc[t] = "send"
    /\ \E sent \in IF client.ws = "open" THEN BOOLEAN ELSE {FALSE} :
         client' = IF sent
                   THEN [client EXCEPT !.pending = @ \cup {t}, !.pc[t] = "recv"]
                   ELSE [client EXCEPT !.pc[t] = "close_in_chat"]
    /\ UNCHANGED Rest

\* the middleware answers one of the chat requests it holds
ServerReply ==
    /\ \E r \in client.pending, type \in {"chat_response", "chat_error"} :
         client' = [client EXCEPT
                      !.pending = @ \ {r},
                      !.inbox = Append(@, [requestId |-> r, type |-> type])]
    /\ UNCHANGED Rest

\* 373-423: self._ws.recv(), outside the lock; the loop ends on the first
\* message whose requestId matches or whose type is chat_response/chat_error
Recv(t) ==
    /\ client.pc[t] = "recv"
    /\ client.ws = "open"
    /\ client.inbox # <<>>
    /\ client' = [client EXCEPT
                    !.inbox = Tail(@),
                    !.got[t] = Head(client.inbox).requestId,
                    !.pc[t] = "returned",
                    !.result[t] = IF Head(client.inbox).type = "chat_response"
                                  THEN "content" ELSE "error"]
    /\ UNCHANGED Rest

\* 425-444: recv raises (socket timeout, socket closed by another thread)
RecvFail(t) ==
    /\ client.pc[t] = "recv"
    /\ client' = [client EXCEPT !.pc[t] = "close_in_chat"]
    /\ UNCHANGED Rest

\* chat_rest (128-256): one HTTP request with a timeout; every path returns
\* an LLMResponse
ChatRest(t) ==
    /\ client.pc[t] = "rest"
    /\ \E success \in BOOLEAN :
         client' = [client EXCEPT
                      !.pc[t] = "returned",
                      !.result[t] = IF success THEN "content" ELSE "error"]
    /\ UNCHANGED Rest

\* the caller takes the LLMResponse; the thread serves its next request
Return(t) ==
    /\ client.pc[t] = "returned"
    /\ client' = [client EXCEPT !.pc[t] = "idle", !.result[t] = "none",
                                !.got[t] = 0]
    /\ UNCHANGED Rest

\* the steps of a thread that is inside a call
CallerStep(t) ==
    \/ ConnectAcquire(t) \/ ConnectAlready(t) \/ ConnectEstablish(t)
    \/ CloseWebsocket(t) \/ Send(t) \/ Recv(t) \/ RecvFail(t) \/ ChatRest(t)

NextWs ==
    \/ \E t \in Callers : Call(t)
    \/ \E t \in Callers : ConnectAcquire(t)
    \/ \E t \in Callers : ConnectAlready(t)
    \/ \E t \in Callers : ConnectEstablish(t)
    \/ \E t \in Callers : CloseWebsocket(t)
    \/ \E t \in Callers : Send(t)
    \/ ServerReply
    \/ \E t \in Callers : Recv(t)
    \/ \E t \in Callers : RecvFail(t)
    \/ \E t \in Callers : ChatRest(t)
    \/ \E t \in Callers : Return(t)

SpecWs == InitWs /\ [][NextWs]_vars

\* every thread inside a call keeps running: a step it can take again and
\* again is taken (the lock is handed over, recv returns or times out)
SpecWsFair ==
    InitWs /\ [][NextWs]_vars /\ \A t \in Callers : SF_vars(CallerStep(t))

(***************************************************************************)
(* The singleton getters (rag.py 797-810, embed.py 178-191,                *)
(* llm_middleware.py 554-567) and RAGPipeline.__init__ (rag.py 296-354),   *)
(* which calls two of them.  process.stack[t] are the getter calls thread  *)
(* t is inside, the innermost last; a frame says where the call stands.    *)
(***************************************************************************)
InitHandles ==
    /\ collection = {}
    /\ config \in Configs
    /\ retrieval = IdleRetrieval
    /\ request = IdleRequest
    /\ assembly = IdleAssembly
    /\ processing = IdleProcessing
    /\ client = IdleClient
    /\ process \in { NewProcess(store) : store \in Stores }
    /\ extraction = IdleExtraction
    /\ chunking = IdleChunking

Others == <<collection, config, retrieval, request, assembly, processing,
           client, extraction,
         chunking>>

Top(t) == process.stack[t][Len(process.stack[t])]

Pop(t) == SubSeq(process.stack[t], 1, Len(process.stack[t]) - 1)

\* the top frame moves to `at`
Moved(t, at) == Pop(t) \o <<[kind |-> Top(t).kind, at |-> at]>>

\* a thread calls one of the getters
GetterEnter(t, h) ==
    /\ process.stack[t] = <<>>
    /\ process' = [process EXCEPT
                     !.stack[t] = <<[kind |-> h, at |-> "check"]>>,
                     !.raised[t] = FALSE]
    /\ UNCHANGED Others

\* `if _x is None` (rag.py 808, embed.py 189, llm_middleware.py 565): the
\* handle exists and is returned, or the thread goes on to construct it
GetterCheck(t) ==
    /\ process.stack[t] # <<>>
    /\ Top(t).at = "check"
    /\ process' = [process EXCEPT
                     !.stack[t] = IF process.instance[Top(t).kind]
                                  THEN Pop(t)
                                  ELSE Moved(t, "init")]
    /\ UNCHANGED Others

\* RAGPipeline.__init__, the provider part (296-341): the middleware
\* provider calls get_llm_client (306)
RagInitProvider(t) ==
    /\ process.stack[t] # <<>>
    /\ Top(t) = [kind |-> "rag", at |-> "init"]
    /\ process' = [process EXCEPT
                     !.stack[t] =
                        IF config.llm_provider = "middleware"
                        THEN Moved(t, "collection")
                             \o <<[kind |-> "llm", at |-> "check"]>>
                        ELSE Moved(t, "collection")]
    /\ UNCHANGED Others

\* RAGPipeline.__init__, the collection part (343-352): get_collection
\* raises when the collection does not exist, and the exception leaves the
\* getter; otherwise the constructor calls get_embedding_model
RagInitCollection(t) ==
    /\ process.stack[t] # <<>>
    /\ Top(t) = [kind |-> "rag", at |-> "collection"]
    /\ process' = IF process.store = "missing"
                  THEN [process EXCEPT !.stack[t] = <<>>, !.raised[t] = TRUE]
                  ELSE [process EXCEPT
                          !.stack[t] = Moved(t, "assign")
                                       \o <<[kind |-> "embed", at |-> "check"]>>]
    /\ UNCHANGED Others

\* `_x = X()` (rag.py 809, embed.py 190, llm_middleware.py 566): the
\* instance is constructed and stored, and the getter returns it
Construct(t) ==
    /\ process.stack[t] # <<>>
    /\ \/ Top(t).kind = "rag" /\ Top(t).at = "assign"
       \/ Top(t).kind # "rag" /\ Top(t).at = "init"
    /\ process' = [process EXCEPT
                     !.built[Top(t).kind] = @ + 1,
                     !.instance[Top(t).kind] = TRUE,
                     !.stack[t] = Pop(t)]
    /\ UNCHANGED Others

NextHandles ==
    \/ \E t \in Callers, h \in Kinds : GetterEnter(t, h)
    \/ \E t \in Callers : GetterCheck(t)
    \/ \E t \in Callers : RagInitProvider(t)
    \/ \E t \in Callers : RagInitCollection(t)
    \/ \E t \in Callers : Construct(t)

SpecHandles == InitHandles /\ [][NextHandles]_vars

(***************************************************************************)
(* Start-up (main.py 149-157) and the handlers that use the pipeline       *)
(* (main.py 176-222), all on the event-loop thread.                        *)
(***************************************************************************)
\* the thread that runs the event loop
Main == 1

\* startup_event (152-153): get_rag_pipeline() is called
StartupBegin ==
    /\ process.phase = "starting"
    /\ process' = [process EXCEPT
                     !.phase = "initializing",
                     !.stack[Main] = <<[kind |-> "rag", at |-> "check"]>>]
    /\ UNCHANGED Others

\* startup_event (154-157): the getter returned and the application starts
\* serving, or it raised, the hook raises again and the server exits
StartupEnd ==
    /\ process.phase = "initializing"
    /\ process.stack[Main] = <<>>
    /\ process' = [process EXCEPT
                     !.phase = IF process.raised[Main] THEN "failed" ELSE "serving"]
    /\ UNCHANGED Others

\* health_check (179) and ask_question (205): a request asks for the pipeline
Serve ==
    /\ process.phase = "serving"
    /\ process.stack[Main] = <<>>
    /\ process' = [process EXCEPT
                     !.stack[Main] = <<[kind |-> "rag", at |-> "check"]>>]
    /\ UNCHANGED Others

NextStartup ==
    \/ StartupBegin
    \/ GetterCheck(Main)
    \/ RagInitProvider(Main)
    \/ RagInitCollection(Main)
    \/ Construct(Main)
    \/ StartupEnd
    \/ Serve

SpecStartup == InitHandles /\ [][NextStartup]_vars

(***************************************************************************)
(* extract_section_info (rag.py 230-271) called on any query made of the   *)
(* words its patterns look at.                                             *)
(***************************************************************************)
RefTokens ==
    {"IPC", "crpc", "section", "of", "sec", "what", "is", "420", "41", "law"}

RefQueries ==
    UNION { [1..n -> RefTokens] : n \in 1..MaxRefLen }

InitExtract ==
    /\ collection = {}
    /\ config = DefaultConfig
    /\ retrieval = IdleRetrieval
    /\ request = IdleRequest
    /\ assembly = IdleAssembly
    /\ processing = IdleProcessing
    /\ client = IdleClient
    /\ process = IdleProcess
    /\ extraction = IdleExtraction
    /\ chunking = IdleChunking

\* section_num, act_type = extract_section_info(query)   (rag.py 387)
ExtractSectionInfo ==
    /\ extraction.phase = "idle"
    /\ \E query \in RefQueries :
         extraction' = [phase |-> "extracted", query |-> query,
                        ref |-> extract_section_info(query)]
    /\ UNCHANGED <<collection, config, retrieval, request, assembly, processing,
                   client, process, chunking>>

NextExtract == ExtractSectionInfo

SpecExtract == InitExtract /\ [][NextExtract]_vars

(***************************************************************************)
(* enforce_word_limit (response_processor.py 600-621) called on a text     *)
(* that closes with a disclaimer, as the provider wrote it or as           *)
(* ensure_next_steps (531-550) left it.                                    *)
(***************************************************************************)
\* the number of body words: from under the reserve to over the ceiling
BodyLens == (max_words - reserved_words - 10)..MaxBodyWords

\* closing blocks: the default one, one the provider wrote in the same
\* layout, one the provider wrote as a plain paragraph
ClosingBlocks ==
    { DEFAULT_DISCLAIMER,
      <<NL, "---", NL, "WARN", "**Disclaimer:**", "Not", "legal", "advice.">>,
      <<NL, NL, "**Disclaimer:**", "This", "is", "not", "legal", "advice.">> }

LimitTexts ==
    { [i \in 1..n |-> "word"] \o closing : n \in BodyLens, closing \in ClosingBlocks }

InitLimit ==
    /\ collection = {}
    /\ config = DefaultConfig
    /\ retrieval = IdleRetrieval
    /\ request = IdleRequest
    /\ assembly = IdleAssembly
    /\ processing = IdleProcessing
    /\ client = IdleClient
    /\ process = IdleProcess
    /\ extraction = IdleExtraction
    /\ chunking = IdleChunking

\* processed = enforce_word_limit(processed, max_words=280)   (line 679),
\* on a text that step 9 has or has not touched
EnforceWordLimit ==
    /\ processing.phase = "idle"
    /\ \E text \in LimitTexts :
         \E response \in {text, ensure_next_steps(text, "default")} :
            processing' = [IdleProcessing EXCEPT
                             !.phase = "limited", !.step = "enforce_word_limit",
                             !.response = response,
                             !.result = enforce_word_limit(response, max_words)]
    /\ UNCHANGED <<collection, config, retrieval, request, assembly, client,
                   process, extraction, chunking>>

NextLimit == EnforceWordLimit

SpecLimit == InitLimit /\ [][NextLimit]_vars

(***************************************************************************)
(* chunk_text (src/llm/scripts/index_data.py 249-289) as the indexing      *)
(* script calls it (430), one action per pass of its while loop.           *)
(***************************************************************************)
chunk_size == 800

overlap == 200

\* str.rfind(sub, start, end): the highest position of the character in
\* text[start:end], -1 if none; a negative bound counts from the end of the
\* text, as in a slice
SliceBound(len, i) ==
    IF i < 0 THEN (IF len + i < 0 THEN 0 ELSE len + i)
    ELSE IF i > len THEN len ELSE i

rfind(len, positions, start, end) ==
    LET found == { p \in positions :
                     SliceBound(len, start) <= p /\ p < SliceBound(len, end) }
    IN  IF found = {} THEN -1
        ELSE CHOOSE p \in found : \A q \in found : q <= p

\* lines 269-283: where the chunk that starts at `start` ends
chunk_end(text, start) ==
    LET end == start + chunk_size
        sentence == rfind(text.len, text.marks, start, end)
        boundary == IF sentence = -1 \/ sentence < start + chunk_size \div 2
                    THEN rfind(text.len, text.spaces, start, end)
                    ELSE sentence
    IN  IF end < text.len /\ boundary > start THEN boundary + 1 ELSE end

\* line 286: where the next chunk starts
next_start(text, end) ==
    IF end < text.len THEN end - overlap ELSE text.len

\* the texts indexed: one that fits a chunk, one a character longer, one of
\* several chunks; spaces and sentence marks early and late in a window
TextLens == {chunk_size, chunk_size + 1, 2 * chunk_size - 100}

SpacePositions == {50, 199, 450, 700, 1000}

MarkPositions == {300, 650}

Texts ==
    [len : TextLens, spaces : SUBSET SpacePositions, marks : SUBSET MarkPositions]

InitChunk ==
    /\ collection = {}
    /\ config = DefaultConfig
    /\ retrieval = IdleRetrieval
    /\ request = IdleRequest
    /\ assembly = IdleAssembly
    /\ processing = IdleProcessing
    /\ client = IdleClient
    /\ process = IdleProcess
    /\ extraction = IdleExtraction
    /\ chunking = IdleChunking

NotChunking ==
    <<collection, config, retrieval, request, assembly, processing, client,
      process, extraction>>

\* lines 260-264: a text that fits one chunk is returned whole; otherwise
\* the loop starts at 0 with no chunks.  A chunk is recorded by the bounds
\* of its slice.
ChunkCall ==
    /\ chunking.phase = "idle"
    /\ \E text \in Texts :
         chunking' =
            IF text.len <= chunk_size
            THEN [phase |-> "returned", text |-> text, start |-> 0,
                  chunks |-> <<[start |-> 0, end |-> text.len]>>]
            ELSE [phase |-> "looping", text |-> text, start |-> 0,
                  chunks |-> <<>>]
    /\ UNCHANGED NotChunking

\* lines 266-286: one pass of `while start < len(text)`
ChunkIterate ==
    /\ chunking.phase = "looping"
    /\ chunking.start < chunking.text.len
    /\ Len(chunking.chunks) < MaxChunks
    /\ \E end \in {chunk_end(chunking.text, chunking.start)} :
         chunking' = [chunking EXCEPT
                        !.chunks = Append(@, [start |-> chunking.start,
                                              end |-> end]),
                        !.start = next_start(chunking.text, end)]
    /\ UNCHANGED NotChunking

\* line 288: the loop condition fails and the chunks are returned
ChunkReturn ==
    /\ chunking.phase = "looping"
    /\ ~(chunking.start < chunking.text.len)
    /\ chunking' = [chunking EXCEPT !.phase = "returned"]
    /\ UNCHANGED NotChunking

NextChunk == ChunkCall \/ ChunkIterate \/ ChunkReturn

SpecChunk == InitChunk /\ [][NextChunk]_vars

(***************************************************************************)
(* Properties.                                                             *)
(***************************************************************************)
Retrieved == retrieval.phase # "idle" /\ ~retrieval.raised

\* C1: the list returned by retrieve_documents never holds two candidates
\* with the same (type, section_number) key, also when the exact lookup
\* returns several chunks of the section.
C1_NoDuplicateKeys ==
    Retrieved =>
        \A i, j \in 1..Len(retrieval.docs) :
            i # j =>
                <<retrieval.docs[i].metadata.type,
                  retrieval.docs[i].metadata.section_number>>
                # <<retrieval.docs[j].metadata.type,
                    retrieval.docs[j].metadata.section_number>>

\* C2: retrieve_documents(query, top_k) never returns more than top_k
\* candidates.
C2_AtMostTopK ==
    Retrieved => Len(retrieval.docs) <= retrieval.top_k

\* no returned candidate carries the section the query names
NoCandidateMatches ==
    LET ref == extract_section_info(retrieval.query)
    IN  \A i \in 1..Len(retrieval.docs) :
           ~ /\ retrieval.docs[i].metadata.section_number = ref.section_num
             /\ retrieval.docs[i].metadata.type = ref.act_type

\* C3: _check_relevance is false whenever the query names a section and no
\* returned candidate carries it, whatever the distances.
C3_MissingSectionNotRelevant ==
    (/\ retrieval.phase = "checked"
     /\ SectionDetected(retrieval.query)
     /\ NoCandidateMatches)
        => ~retrieval.relevant

\* C4: when the embedding call fails, retrieve_documents returns an empty
\* list instead of raising.
C4_EmbeddingFailureReturnsEmpty ==
    (retrieval.phase # "idle" /\ retrieval.io.embed_fails)
        => (~retrieval.raised /\ retrieval.docs = <<>>)

\* C5: in a run of ask in which the exact lookup yields a hit,
\* search_legal_web is never called, the relevance gate returns true and
\* the result has used_web_search = false.  (A run in which the retrieval
\* raises reaches neither the gate nor a result.)
C5_ExactHitStaysLocal ==
    request.exact_hits > 0 =>
        /\ request.web_calls = 0
        /\ (request.phase \in {"context", "answered"}
              => request.use_local_db /\ ~request.used_web_search)
        /\ (request.phase = "answered" => ~request.result.used_web_search)
        /\ (request.phase = "responded" /\ request.response.status = 200
              => request.use_local_db /\ ~request.result.used_web_search)

\* C5 happens: an exact hit, web search configured, and a result
C5_Witness ==
    /\ request.phase = "answered"
    /\ request.exact_hits > 0
    /\ config.tavily_configured
    /\ request.retrieved_docs[1].distance = 0
    /\ ~request.result.used_web_search

\* the gate was false, web search is configured and returned results
WebSearchSucceeded ==
    /\ request.phase \in {"answered", "responded"}
    /\ ~request.raised
    /\ ~request.use_local_db
    /\ config.tavily_configured
    /\ request.web_search_results.success
    /\ request.web_search_results.results # <<>>

\* C6: when the gate is false, web search is configured and returns
\* success with results, ask returns used_web_search = true and every
\* source is built from a web result: at most 3, none from the local
\* candidates.
C6_WebSourcesOnly ==
    WebSearchSucceeded =>
        LET sources == request.result.sources
            results == request.web_search_results.results
        IN  /\ request.result.used_web_search
            /\ Len(sources) <= 3
            /\ Len(sources) <= Len(results)
            /\ \A i \in 1..Len(sources) :
                  /\ i <= Len(results)
                  /\ sources[i].type = "web"
                  /\ sources[i].source = results[i].title
                  /\ sources[i].url = results[i].url

\* C6 happens: more than 3 web results while local candidates exist
C6_Witness ==
    /\ WebSearchSucceeded
    /\ request.phase = "answered"
    /\ Len(request.web_search_results.results) > 3
    /\ request.retrieved_docs # <<>>
    /\ Len(request.result.sources) = 3

\* C7: the used_web_search returned by the /ask endpoint equals the one
\* computed by RAGPipeline.ask for the request.
C7_ResponseReportsWebSearch ==
    (request.phase = "responded" /\ request.response.status = 200)
        => request.response.used_web_search = request.result.used_web_search

\* C8: whenever the LLM provider call fails, the result of ask carries the
\* error message in answer and an empty list of sources.
C8_LlmFailureHasNoSources ==
    (request.phase = "answered" /\ request.outcome # "ok")
        => /\ request.result.answer = request.raw_answer
           /\ request.result.sources = <<>>

\* C9: every string an adapter returns to signal a failed or missing
\* generation is returned by post_process_response unmodified.
C9_FailureStringsUnmodified ==
    (processing.phase = "done" /\ processing.outcome # "ok")
        => processing.result = processing.response

\* C10: the string returned by build_context is never longer than
\* MAX_CONTEXT_LENGTH, and for an empty candidate list it is the fixed
\* sentinel.
C10_ContextWithinBudget ==
    assembly.phase = "built" =>
        /\ Len(assembly.context) <= MAX_CONTEXT_LENGTH
        /\ (assembly.documents = <<>> => assembly.context = NO_DOCUMENTS_CONTEXT)

\* C11: the context built from a non-empty candidate list is never the empty
\* string: a first segment longer than MAX_CONTEXT_LENGTH is truncated, not
\* dropped.
C11_FirstSegmentNotDropped ==
    (assembly.phase = "built" /\ assembly.documents # <<>>)
        => assembly.context # ""

\* the last section of the text is a disclaimer block: a disclaimer heading
\* after which no other section begins
SectionHeads ==
    {"**Quick", "**Important", "**Jurisdiction", "**Suggested", "**Critical",
     "**Note:**"}

EndsWithDisclaimer(text) ==
    \E i \in 1..Len(text) :
       /\ text[i] \in DisclaimerMarkers
       /\ \A j \in (i + 1)..Len(text) : text[j] \notin SectionHeads

\* C12: every answer returned by post_process_response ends with a
\* disclaimer block (stated here for the responses the provider generated).
C12_EndsWithDisclaimer ==
    (processing.phase = "done" /\ processing.outcome = "ok")
        => EndsWithDisclaimer(processing.result)

\* the topic detected for the processed request (response_processor.py 643-644)
ProcessedTopic ==
    detect_topic(processing.query \o processing.response, processing.query)

\* the text has a next-steps heading and, after it, the escalation bullet
\* of the topic
HasNextSteps(text, topic) ==
    \E h \in 1..Len(text) :
       /\ text[h] = "Next" /\ h < Len(text)
       /\ text[h + 1] \in {"Steps", "Steps:", "Steps:**"}
       /\ \E i \in (h + 2)..Len(text) :
             PhraseAt(text, i, <<"If", "unresolved,">> \o CORRECT_ESCALATIONS(topic)
                                \o <<"may", "be", "appropriate">>)

\* C13: every answer returned by post_process_response contains a next-steps
\* section whose escalation path is that of the detected topic, also when
\* the raw response carried its own next-steps text.
C13_NextStepsMatchTopic ==
    (processing.phase = "done" /\ processing.outcome = "ok")
        => HasNextSteps(processing.result, ProcessedTopic)

\* C14: the word count of every answer returned by post_process_response is
\* at most the ceiling passed to enforce_word_limit.
C14_WithinWordLimit ==
    (processing.phase = "done" /\ processing.outcome = "ok")
        => Len(Words(processing.result)) <= max_words

\* the text mentions the police or an FIR (the test of
\* block_police_for_civil_matters, response_processor.py 383)
MentionsPolice(text) ==
    \E i \in 1..Len(text) : TokenWords(text[i]) \cap {"police", "fir"} # {}

\* the text names a civil remedy: a civil court or suit, or a legal notice
NamesCivilRemedy(text) ==
    \/ \E i \in 1..Len(text) : TokenWords(text[i]) \cap {"civil"} # {}
    \/ \E i \in 1..(Len(text) - 1) :
          /\ TokenWords(text[i]) \cap {"legal"} # {}
          /\ TokenWords(text[i + 1]) \cap {"notice"} # {}

\* the request is about a debt and the generated text brings up the police
DebtWithPolice ==
    /\ processing.phase = "done" /\ processing.outcome = "ok"
    /\ ProcessedTopic = "debt"
    /\ MentionsPolice(processing.response)

\* C15: when the detected topic is debt and the raw response recommends
\* police action or an FIR, the processed answer holds no police or FIR
\* language and names a civil remedy.
C15_NoPoliceForDebt ==
    DebtWithPolice =>
        /\ ~MentionsPolice(processing.result)
        /\ NamesCivilRemedy(processing.result)

\* the number of times the civil-matter clarification note occurs in the text
CivilNoteCount(text) ==
    Cardinality({ i \in 1..Len(text) : PhraseAt(text, i, Words(civil_note)) })

\* C16: when the detected topic is debt and the raw response mentions the
\* police or an FIR, the civil-matter clarification note occurs exactly once
\* in the processed answer.
C16_CivilNoteOnce ==
    DebtWithPolice => CivilNoteCount(processing.result) = 1

\* C17: every step of the response pipeline is idempotent: applied to its
\* own output it changes nothing.
C17_StepsIdempotent ==
    processing.phase = "repeated" => processing.again = processing.result

\* the query carries a criminal-law context keyword (190-194)
CriminalQuery ==
    AnyMatches(processing.query, CRIMINAL_CHEATING_CONTEXT)

\* how many privacy warning headings a text holds (158-159)
PrivacyWarnings(text) ==
    Cardinality({ i \in 1..(Len(text) - 2) :
                    /\ text[i] = "**Critical"
                    /\ text[i + 1] = "Privacy"
                    /\ text[i + 2] = "Warning:**" })

\* how many family-evidence warning headings a text holds (166-167)
FamilyWarnings(text) ==
    Cardinality({ i \in 1..(Len(text) - 2) :
                    /\ text[i] = "**Important"
                    /\ text[i + 1] = "for"
                    /\ text[i + 2] = "Family/Divorce" })

\* C18: when the query carries a criminal-law context keyword, the processed
\* answer holds no privacy warning and no family-evidence warning that the
\* generated text did not already hold, whatever the text says about
\* cheating or recording.
C18_CriminalContextSuppressesWarnings ==
    (processing.phase = "done" /\ processing.outcome = "ok" /\ CriminalQuery)
        => /\ PrivacyWarnings(processing.result)
                <= PrivacyWarnings(processing.response)
           /\ FamilyWarnings(processing.result)
                <= FamilyWarnings(processing.response)

\* a criminal-law query whose generated text advises recording a cheating
\* wife has been processed
C18_Witness ==
    /\ processing.phase = "done"
    /\ processing.outcome = "ok"
    /\ CriminalQuery
    /\ processing.response \in SpyTexts
    /\ PrivacyWarnings(processing.result) = 0

\* the threads that have sent a chat request and not yet received an answer
InFlight == { t \in Callers : client.pc[t] = "recv" }

\* C19: at most one request is in flight on the connection: while one thread
\* is between its send and its recv, no other thread is.
C19_OneRequestInFlight ==
    Cardinality(InFlight) <= 1

\* C20: a thread whose connection attempt failed (refused, timed out or
\* rejected) gets an LLMResponse from the REST fallback.
C20_FallbackReturns ==
    \A t \in Callers :
        (client.pc[t] = "close_in_connect") ~> (client.pc[t] = "returned")

\* C21: each singleton handle is constructed at most once in the life of the
\* process, whatever the interleaving of the threads that call its getter.
C21_ConstructedOnce ==
    \A h \in Kinds : process.built[h] <= 1

\* C22: the service serves traffic only when the vector collection exists
\* and holds documents: a missing or an empty collection makes start-up fail.
C22_NoServingWithoutData ==
    process.phase = "serving" => process.store = "indexed"

\* the local candidates were judged not relevant and the web search is not
\* configured or its request failed
WebUnavailable ==
    /\ request.phase \in {"context", "answered", "responded"}
    /\ ~request.raised
    /\ ~request.use_local_db
    /\ ~config.tavily_configured \/ ~request.web_search_results.success

\* the context ask falls back to: the local context, or a neutral sentence
\* when there is no candidate
FallbackContexts ==
    IF request.retrieved_docs = <<>>
    THEN {NO_DOCUMENTS_CONTEXT,
          "No relevant information found in local database or web search for: "
              \o Join(request.query, " ")}
    ELSE {build_context(request.retrieved_docs)}

\* C23: when the web search is not configured or its request fails, ask
\* keeps the failure to itself: the context is the local one (a neutral
\* sentence without candidates), the LLM is called, and the result says
\* used_web_search = false.
C23_WebFailureNotSurfaced ==
    WebUnavailable =>
        /\ request.context \in FallbackContexts
        /\ ~request.used_web_search
        /\ request.phase \in {"answered", "responded"} =>
              /\ request.adapter \in {"middleware", "ollama", "gemini"}
              /\ ~request.result.used_web_search
        /\ request.phase = "responded" => request.response.status # 500

\* a request whose web search was attempted and failed has been answered
C23_Witness ==
    /\ WebUnavailable
    /\ request.phase = "answered"
    /\ config.tavily_configured
    /\ request.web_calls = 1
    /\ ~request.result.used_web_search

\* the chunks the structured lookup of this retrieval returned (388-407)
ExactIds ==
    LET ref == extract_section_info(retrieval.query)
    IN  IF SectionDetected(retrieval.query) /\ ~retrieval.io.exact_fails
        THEN collection_get(collection, ref.section_num, ref.act_type)
        ELSE <<>>

\* the positions of the ranking whose chunks make up the semantic part of
\* the returned list, in the order of the list
IndexOrder(docs, from) ==
    \A i, j \in (from + 1)..Len(docs) :
        i < j =>
            \E a, b \in 1..Len(retrieval.io.ranking) :
                /\ a < b
                /\ Corpus[retrieval.io.ranking[a].id].metadata = docs[i].metadata
                /\ Corpus[retrieval.io.ranking[a].id].content = docs[i].content
                /\ Corpus[retrieval.io.ranking[b].id].metadata = docs[j].metadata
                /\ Corpus[retrieval.io.ranking[b].id].content = docs[j].content

\* C24: the returned list starts with the exact matches of the structured
\* lookup, each at distance 0; the semantic candidates follow, in the order
\* of the index, their distances ascending.
C24_ExactFirstThenAscending ==
    Retrieved =>
        LET docs == retrieval.docs
            n == Len(ExactIds)
        IN  /\ n <= Len(docs)
            /\ SubSeq(docs, 1, n) = ExactDocs(ExactIds)
            /\ \A i, j \in (n + 1)..Len(docs) :
                   i < j => docs[i].distance <= docs[j].distance
            /\ IndexOrder(docs, n)

\* a retrieval returned an exact match followed by a semantic candidate
C24_Witness ==
    /\ Retrieved
    /\ Len(ExactIds) >= 1
    /\ Len(retrieval.docs) > Len(ExactIds)

\* the (number, act) pairs a query spells out as "<ACT> <number>" or
\* "<ACT> section <number>"
ExplicitPairs(q) ==
    { <<q[i + 1], q[i]>> :
        i \in { k \in 1..(Len(q) - 1) : q[k] \in ACTS /\ IsNumber(q[k + 1]) } }
    \cup
    { <<q[i + 2], q[i]>> :
        i \in { k \in 1..(Len(q) - 2) :
                  q[k] \in ACTS /\ q[k + 1] = "section" /\ IsNumber(q[k + 2]) } }

\* the (number, act) pairs a query spells out with the word "section":
\* "section <number> of <ACT>", "section <number> <ACT>", and a "section
\* <number>" that no act follows, which stands for the default act
SectionPairs(q) ==
    { <<q[k + 1],
        IF k + 3 <= Len(q) /\ q[k + 2] = "of" /\ q[k + 3] \in ACTS
        THEN q[k + 3]
        ELSE IF k + 2 <= Len(q) /\ q[k + 2] \in ACTS
        THEN q[k + 2]
        ELSE "ipc">> :
        k \in { i \in 1..(Len(q) - 1) : q[i] = "section" /\ IsNumber(q[i + 1]) } }

\* C25: a query that spells out "<ACT> <number>" yields such a pair whatever
\* stands around it, and a query that has no such pair but a "section
\* <number>", with or without "of <ACT>", is resolved by the act-aware rule:
\* the number and the act come from one "section" phrase of the query, never
\* from a bare "sec <number>" or "what is <number>".
C25_ExplicitReferenceWins ==
    extraction.phase = "extracted" =>
        LET q == query_lower(extraction.query)
            got == <<extraction.ref.section_num, extraction.ref.act_type>>
        IN  /\ ExplicitPairs(q) # {} => got \in ExplicitPairs(q)
            /\ (ExplicitPairs(q) = {} /\ SectionPairs(q) # {})
                  => got \in SectionPairs(q)

\* a query that spells out an act and a number among other words, a bare
\* "sec <number>" among them, has been analysed
C25_Witness ==
    /\ extraction.phase = "extracted"
    /\ Len(extraction.query) >= 4
    /\ ExplicitPairs(query_lower(extraction.query)) # {}
    /\ \E i \in 1..(Len(extraction.query) - 1) :
          extraction.query[i] = "sec" /\ IsNumber(extraction.query[i + 1])

\* C26: on a non-empty list whose best distance is not 0.0, and unless a
\* section was detected that no candidate carries, _check_relevance is true
\* exactly when the best distance is below RELEVANCE_THRESHOLD, also when a
\* section was detected and a semantic candidate carries it.
C26_ThresholdDecides ==
    (/\ retrieval.phase = "checked"
     /\ retrieval.docs # <<>>
     /\ retrieval.docs[1].distance # 0
     /\ ~(SectionDetected(retrieval.query) /\ NoCandidateMatches))
        => (retrieval.relevant <=>
                retrieval.docs[1].distance < RELEVANCE_THRESHOLD)

\* the closing disclaimer of a text: from its last disclaimer heading to
\* its end
TrailingDisclaimer(text) ==
    LET at == { i \in 1..Len(text) : text[i] \in DisclaimerMarkers }
        last == CHOOSE i \in at : \A j \in at : j <= i
    IN  SubSeq(text, last, Len(text))

MarkerCount(text) ==
    Cardinality({ i \in 1..Len(text) : text[i] \in DisclaimerMarkers })

\* enforce_word_limit has been applied to a text over the ceiling that
\* closes with a disclaimer
LimitApplied ==
    /\ processing.phase = "limited"
    /\ Len(Words(processing.response)) > max_words
    /\ HasToken(processing.response, DisclaimerMarkers)

\* C27: when enforce_word_limit truncates, the disclaimer that closes its
\* input closes its output word for word, and the output has no other
\* disclaimer: the cut falls in the text before it.
C27_DisclaimerKeptVerbatim ==
    LimitApplied =>
        LET block == TrailingDisclaimer(processing.response)
            out == processing.result
        IN  /\ Len(out) >= Len(block)
            /\ SubSeq(out, Len(out) - Len(block) + 1, Len(out)) = block
            /\ MarkerCount(out) = MarkerCount(processing.response)

\* C28: the LLMResponse chat_websocket returns to a thread is built from the
\* message that answers the request this thread sent, never from the answer
\* to another thread's request.
C28_OwnResponseReturned ==
    \A t \in Callers :
        (client.pc[t] = "returned" /\ client.got[t] # 0) => client.got[t] = t

\* C29: every pass of the loop of chunk_text(text, 800, 200) moves start
\* strictly forward, so the loop ends and the chunks are finitely many.
C29_StartIncreases ==
    [][(chunking.phase = "looping" /\ chunking'.phase = "looping")
          => chunking'.start > chunking.start]_vars

\* the distinct (type, section_number) keys the index holds
IndexKeys ==
    { doc_id(Corpus[id].metadata) : id \in collection }

\* C30: the over-fetch of the semantic query fills the result: when the
\* index holds at least top_k distinct keys, retrieve_documents returns
\* exactly top_k candidates, also when nearest neighbours are chunks of one
\* section or repeat an exact hit.
C30_OverFetchFillsResult ==
    (/\ Retrieved
     /\ Cardinality(IndexKeys) >= retrieval.top_k)
        => Len(retrieval.docs) = retrieval.top_k

====
